---- MODULE Spec2Model ----
(***************************************************************************)
(* Model of src/worker.js: the Cloudflare email worker that forwards an    *)
(* inbound message to a multi-destination (a list of redundant            *)
(* destinations, each a list of simple addresses tried in order), falls   *)
(* back to a reject-forward and finally to a direct reject.               *)
(*                                                                         *)
(* Strings are sequences of one-character strings, so that split, trim,   *)
(* prepend and the regular expressions are computed, not assumed.         *)
(***************************************************************************)
EXTENDS Integers, Sequences, FiniteSets, TLC

(***************************************************************************)
(* Bounds of the model.                                                    *)
(***************************************************************************)
\* Largest number of simple addresses written in DESTINATION, over all of
\* its redundant destinations.
MaxAddresses == 3

\* Largest length of the local parts that the parser of local parts is
\* applied to, beside those of the recipients.
MaxLocalPart == 4

(***************************************************************************)
(* Strings.                                                                *)
(***************************************************************************)
\* The values undefined and null, which are no strings
Undefined == <<"undefined">>
Null == <<"null">>

Whitespace == {" "}
UpperCaseLetters ==
    <<"A", "B", "C", "D", "E", "F", "G", "H", "I", "J", "K", "L", "M",
      "N", "O", "P", "Q", "R", "S", "T", "U", "V", "W", "X", "Y", "Z">>
LowerCaseLetters ==
    <<"a", "b", "c", "d", "e", "f", "g", "h", "i", "j", "k", "l", "m",
      "n", "o", "p", "q", "r", "s", "t", "u", "v", "w", "x", "y", "z">>
Letters ==
    {UpperCaseLetters[i] : i \in 1..26} \cup {LowerCaseLetters[i] : i \in 1..26}
Digits == {"0", "1", "2", "3", "4", "5", "6", "7", "8", "9"}

\* String.prototype.toLowerCase
LowerChar(c) ==
    IF \E i \in 1..26 : UpperCaseLetters[i] = c
    THEN LowerCaseLetters[CHOOSE i \in 1..26 : UpperCaseLetters[i] = c]
    ELSE c

toLowerCase(str) == [i \in 1..Len(str) |-> LowerChar(str[i])]

\* String.prototype.trim: whitespace is removed at both ends only
RECURSIVE trimStart(_)
\* String.prototype.trim removing every whitespace character, also inside
removeWhitespace(str) ==
    LET isNoWhitespace(c) == c \notin Whitespace
    IN SelectSeq(str, isNoWhitespace)

trimStart(str) ==
    IF str # <<>> /\ Head(str) \in Whitespace THEN trimStart(Tail(str)) ELSE str

RECURSIVE trimEnd(_)
trimEnd(str) ==
    IF str # <<>> /\ str[Len(str)] \in Whitespace
    THEN trimEnd(SubSeq(str, 1, Len(str) - 1))
    ELSE str

trim(str) == trimEnd(trimStart(str))

\* String.prototype.startsWith
startsWith(str, prefix) ==
    /\ Len(prefix) <= Len(str)
    /\ SubSeq(str, 1, Len(prefix)) = prefix

\* String.prototype.indexOf, 0-based, -1 when the text does not occur
indexOf(str, search) ==
    LET hits == {i \in 1..(Len(str) - Len(search) + 1) :
                    SubSeq(str, i, i + Len(search) - 1) = search}
    IN IF hits = {} THEN -1
       ELSE (CHOOSE i \in hits : \A j \in hits : i <= j) - 1

\* String.prototype.includes
includes(str, search) == indexOf(str, search) >= 0

\* String.prototype.slice(from) and slice(from, to), 0-based
sliceFrom(str, from) == SubSeq(str, from + 1, Len(str))
sliceTo(str, to) == SubSeq(str, 1, to)

\* String.prototype.split with a non-empty separator: always at least one piece
RECURSIVE split(_, _)
split(str, separator) ==
    LET i == indexOf(str, separator)
    IN IF i < 0 THEN <<str>>
       ELSE <<sliceTo(str, i)>> \o split(sliceFrom(str, i + Len(separator)), separator)

\* Array.prototype.includes
arrayIncludes(array, x) == \E i \in 1..Len(array) : array[i] = x

RECURSIVE flatten(_)
flatten(arrays) ==
    IF arrays = <<>> THEN <<>> ELSE Head(arrays) \o flatten(Tail(arrays))

(***************************************************************************)
(* FIXED and DEFAULTS (src/worker.js:32-139).                              *)
(***************************************************************************)
FORMAT_REDUNDANT_ADDRESS_SEPARATOR == <<",">>
FORMAT_SIMPLE_ADDRESS_SEPARATOR == <<":">>
FORMAT_LOCAL_PART_SEPARATOR == <<"+">>
FORMAT_REJECT_SEPARATOR == <<";">>

\* DEFAULTS with a catch-all user and a destination
DEFAULTSWithCatchAll ==
    [USE_STORED_ADDRESS_CONFIGURATION |-> <<"t", "r", "u", "e">>,
     USE_STORED_USER_CONFIGURATION |-> <<"t", "r", "u", "e">>,
     DESTINATION |-> <<"a", "1", "@", "x">>,
     REJECT_TREATMENT |-> <<":", " ", "I", "n", "v", "a", "l", "i", "d", " ",
                            "r", "e", "c", "i", "p", "i", "e", "n", "t">>,
     SUBADDRESSES |-> <<"*">>,
     USERS |-> <<"*">>,
     CUSTOM_HEADER |-> <<"X", "-", "M", "y">>,
     CUSTOM_HEADER_FAIL |-> <<"f", "a", "i", "l">>,
     CUSTOM_HEADER_PASS |-> <<"p", "a", "s", "s">>]

DEFAULTS ==
    [USE_STORED_ADDRESS_CONFIGURATION |-> <<"t", "r", "u", "e">>,
     USE_STORED_USER_CONFIGURATION |-> <<"t", "r", "u", "e">>,
     DESTINATION |-> <<>>,
     REJECT_TREATMENT |-> <<":", " ", "I", "n", "v", "a", "l", "i", "d", " ",
                            "r", "e", "c", "i", "p", "i", "e", "n", "t">>,
     SUBADDRESSES |-> <<"*">>,
     USERS |-> <<>>,
     CUSTOM_HEADER |-> <<"X", "-", "M", "y">>,
     CUSTOM_HEADER_FAIL |-> <<"f", "a", "i", "l">>,
     CUSTOM_HEADER_PASS |-> <<"p", "a", "s", "s">>]

\* FIXED.startsWithNonAlphanumericRegExp: /^[^A-Z0-9]/i
startsWithNonAlphanumericRegExp(str) ==
    str # <<>> /\ str[1] \notin (Letters \cup Digits)

\* FIXED.prepend: the first condition that matches prepends. A condition is
\* [regExp |-> TRUE] for the one regular expression used, or
\* [regExp |-> FALSE, test |-> string]; both carry the text to prepend.
RECURSIVE prepend(_, _)
\* FIXED.prepend trying its first condition only
prependFirstConditionOnly(base, prependConditions) ==
    IF prependConditions = <<>> THEN base
    ELSE LET prependCondition == Head(prependConditions)
             shouldPrepend ==
                 IF prependCondition.regExp
                 THEN startsWithNonAlphanumericRegExp(base)
                 ELSE startsWith(base, prependCondition.test)
         IN IF shouldPrepend THEN prependCondition.prepend \o base ELSE base

prepend(base, prependConditions) ==
    IF prependConditions = <<>> THEN base
    ELSE LET prependCondition == Head(prependConditions)
             shouldPrepend ==
                 IF prependCondition.regExp
                 THEN startsWithNonAlphanumericRegExp(base)
                 ELSE startsWith(base, prependCondition.test)
         IN IF shouldPrepend THEN prependCondition.prepend \o base
            ELSE prepend(base, Tail(prependConditions))

\* addressLocalParts without the conversion to lower case
addressLocalPartsInGivenCase(localPart, formatLocalPartSeparator) ==
    LET firstLocalPartSeparatorIndex == indexOf(localPart, formatLocalPartSeparator)
    IN IF firstLocalPartSeparatorIndex >= 0
       THEN <<sliceTo(localPart, firstLocalPartSeparatorIndex),
              sliceFrom(localPart,
                        firstLocalPartSeparatorIndex + Len(formatLocalPartSeparator))>>
       ELSE <<localPart, <<>>>>

\* addressLocalParts splitting at the last separator
addressLocalPartsAtLastSeparator(localPart, formatLocalPartSeparator) ==
    LET lowerCaseLocalPart == toLowerCase(localPart)
        hits == {i \in 1..(Len(lowerCaseLocalPart) - Len(formatLocalPartSeparator) + 1) :
                    SubSeq(lowerCaseLocalPart, i, i + Len(formatLocalPartSeparator) - 1)
                       = formatLocalPartSeparator}
        lastLocalPartSeparatorIndex ==
            IF hits = {} THEN -1 ELSE (CHOOSE i \in hits : \A j \in hits : j <= i) - 1
    IN IF lastLocalPartSeparatorIndex >= 0
       THEN <<sliceTo(lowerCaseLocalPart, lastLocalPartSeparatorIndex),
              sliceFrom(lowerCaseLocalPart,
                        lastLocalPartSeparatorIndex + Len(formatLocalPartSeparator))>>
       ELSE <<lowerCaseLocalPart, <<>>>>

\* DEFAULTS.addressLocalParts
addressLocalParts(localPart, formatLocalPartSeparator) ==
    LET lowerCaseLocalPart == toLowerCase(localPart)
        firstLocalPartSeparatorIndex ==
            indexOf(lowerCaseLocalPart, formatLocalPartSeparator)
    IN IF firstLocalPartSeparatorIndex >= 0
       THEN <<sliceTo(lowerCaseLocalPart, firstLocalPartSeparatorIndex),
              sliceFrom(lowerCaseLocalPart,
                        firstLocalPartSeparatorIndex + Len(formatLocalPartSeparator))>>
       ELSE <<lowerCaseLocalPart, <<>>>>

\* DEFAULTS.FORMAT_VALID_EMAIL_ADDRESS_REGEXP as the RegExp constructor sees
\* it. The pattern is written in a double-quoted literal, where "\." is ".",
\* so the pattern is: one or more local-part characters, an at sign, one or
\* more domain characters, then any number of groups made of ANY one
\* character followed by one or more domain characters.
\* (The pattern's backquote and typographic apostrophe are left out: no text
\* of the model holds them.)
LocalPartChars ==
    Letters \cup Digits \cup
    {".", "!", "#", "$", "%", "&", "*", "+", "/", "=", "?", "^", "_",
     "{", "|", "}", "~", "-"}
DomainChars == Letters \cup Digits \cup {"-"}

\* The domain part of the pattern over a whole string: it starts and ends
\* with a domain character and no two other characters are adjacent
matchesDomain(str) ==
    /\ str # <<>>
    /\ str[1] \in DomainChars
    /\ str[Len(str)] \in DomainChars
    /\ \A i \in 1..(Len(str) - 1) :
          str[i] \in DomainChars \/ str[i + 1] \in DomainChars

\* DEFAULTS.isValidEmailAddress with the default pattern
isValidEmailAddress(address) ==
    LET at == indexOf(address, <<"@">>)
    IN /\ at >= 1
       /\ \A i \in 1..at : address[i] \in LocalPartChars
       /\ matchesDomain(sliceFrom(address, at + 1))

(***************************************************************************)
(* The state of one invocation of email(message, environment, context).    *)
(***************************************************************************)
VARIABLES
    messageTo,      \* message.to
    environment,    \* the environment object: a value, or Undefined, per key
    MAP,            \* the KV store: the stored keys and their values
    pc,             \* where email() stands
    kvReads,        \* the keys MAP.get was called with, so far
    acceptForwardWasSuccessful,
    rejectForwardWasSuccessful,
    multiDestination,   \* the argument of the running forwardToMultiDestination
    customHeaders,  \* its customHeaders argument: the header's name and value
    started,        \* how many redundant destinations its map() has started
    running,        \* the redundant destination that runs now, 0 when none does
    rd,             \* per redundant destination, forwardToRedundantDestination's locals
    thrown,         \* the error email() rejected with
    forwardCalls,   \* message.forward's calls, per action type and redundant destination
    forwardOutcome, \* how forwardToMultiDestination ended, per action type
    setRejectCalls  \* message.setReject's calls

vars ==
    <<messageTo, environment, MAP, pc, kvReads, acceptForwardWasSuccessful,
      rejectForwardWasSuccessful, multiDestination, customHeaders, started,
      running, rd, thrown, forwardCalls, forwardOutcome, setRejectCalls>>

inputs == <<messageTo, environment, MAP>>

(***************************************************************************)
(* email(): configuration (src/worker.js:295-403).                         *)
(***************************************************************************)
\* { ...DEFAULTS, ...environment }
Configured(key) ==
    IF environment[key] = Undefined THEN DEFAULTS[key] ELSE environment[key]

\* a ?? b
Coalesce(a, b) == IF a = Undefined \/ a = Null THEN b ELSE a

\* a || b on strings (and undefined): the empty string is falsy
OrElse(a, b) == IF a = Undefined \/ a = Null \/ a = <<>> THEN b ELSE a

booleanFromString(stringBoolean) ==
    toLowerCase(trim(stringBoolean)) \in {<<"t", "r", "u", "e">>, <<"1">>}

\* MAP.get(key): null when the key is not stored
MAPget(key) == IF key \in DOMAIN MAP THEN MAP[key] ELSE Null

\* storedConfigurationValue with a stored empty string taken as missing
storedConfigurationValueUnlessEmpty(shouldLoad, key) ==
    IF shouldLoad THEN OrElse(MAPget(key), Undefined) ELSE Undefined

\* storedConfigurationValue loading whatever shouldLoad says
storedConfigurationValueUngated(shouldLoad, key) ==
    Coalesce(MAPget(key), Undefined)

storedConfigurationValue(shouldLoad, key) ==
    IF shouldLoad THEN Coalesce(MAPget(key), Undefined) ELSE Undefined

useStoredAddressGlobalConfiguration ==
    booleanFromString(Configured("USE_STORED_ADDRESS_CONFIGURATION"))
useStoredUserConfiguration ==
    booleanFromString(Configured("USE_STORED_USER_CONFIGURATION"))

\* The keys of the global stored configuration
KeyDESTINATION == <<"@", "DESTINATION">>
KeyREJECT_TREATMENT == <<"@", "REJECT_TREATMENT">>
KeySUBADDRESSES == <<"@", "SUBADDRESSES">>
KeyUSERS == <<"@", "USERS">>

\* globalDestination with the environment value before the stored one
globalDestinationEnvironmentFirst ==
    trim(Coalesce(environment["DESTINATION"],
                  Coalesce(storedConfigurationValue(useStoredAddressGlobalConfiguration,
                                                    KeyDESTINATION),
                           DEFAULTS["DESTINATION"])))

globalDestination ==
    trim(Coalesce(storedConfigurationValue(useStoredAddressGlobalConfiguration,
                                           KeyDESTINATION),
                  Configured("DESTINATION")))
globalRejectTreatment ==
    trim(Coalesce(storedConfigurationValue(useStoredAddressGlobalConfiguration,
                                           KeyREJECT_TREATMENT),
                  Configured("REJECT_TREATMENT")))
globalSubaddresses ==
    toLowerCase(trim(Coalesce(
        storedConfigurationValue(useStoredAddressGlobalConfiguration, KeySUBADDRESSES),
        Configured("SUBADDRESSES"))))
globalUsers ==
    toLowerCase(trim(Coalesce(
        storedConfigurationValue(useStoredAddressGlobalConfiguration, KeyUSERS),
        Configured("USERS"))))

\* FORMAT_VALID_CUSTOM_HEADER_REGEXP "X-.*", unanchored: the text holds "X-"
formatValidCustomHeaderRegExp(str) == includes(str, <<"X", "-">>)

\* validateCustomHeader accepting every header that is not empty
customHeaderIsNotEmpty == trim(Configured("CUSTOM_HEADER")) # <<>>

\* validateCustomHeader throws when the trimmed header does not match
customHeaderIsValid ==
    formatValidCustomHeaderRegExp(trim(Configured("CUSTOM_HEADER")))
customHeader == trim(Configured("CUSTOM_HEADER"))
customHeaderFail == trim(Configured("CUSTOM_HEADER_FAIL"))
customHeaderPass == trim(Configured("CUSTOM_HEADER_PASS"))

(***************************************************************************)
(* email(): the message and the user's configuration                       *)
(* (src/worker.js:493-550).                                                *)
(***************************************************************************)
messageLocalPart == split(messageTo, <<"@">>)[1]
messageUser == addressLocalParts(messageLocalPart, FORMAT_LOCAL_PART_SEPARATOR)[1]
messageSubaddress == addressLocalParts(messageLocalPart, FORMAT_LOCAL_PART_SEPARATOR)[2]

userDestinationWithRejectTreatment ==
    storedConfigurationValue(useStoredUserConfiguration, messageUser)

userSubaddresses ==
    LET stored == storedConfigurationValue(useStoredUserConfiguration,
                                           messageUser \o FORMAT_LOCAL_PART_SEPARATOR)
    IN IF stored = Undefined THEN globalSubaddresses
       ELSE toLowerCase(trim(stored))
userRequiresSubaddress == startsWith(userSubaddresses, FORMAT_LOCAL_PART_SEPARATOR)
\* replace(startsWithLocalPartSeparatorRegExp, '')
userConcreteSubaddresses ==
    IF startsWith(userSubaddresses, FORMAT_LOCAL_PART_SEPARATOR)
    THEN sliceFrom(userSubaddresses, Len(FORMAT_LOCAL_PART_SEPARATOR))
    ELSE userSubaddresses

\* userDestination without the fallback to the global destination
userDestinationOfEntryOnly ==
    IF userDestinationWithRejectTreatment = Undefined THEN globalDestination
    ELSE trim(split(userDestinationWithRejectTreatment, FORMAT_REJECT_SEPARATOR)[1])

userDestination ==
    IF userDestinationWithRejectTreatment = Undefined THEN globalDestination
    ELSE OrElse(trim(split(userDestinationWithRejectTreatment,
                           FORMAT_REJECT_SEPARATOR)[1]),
                globalDestination)
userRejectTreatment ==
    IF userDestinationWithRejectTreatment = Undefined THEN globalRejectTreatment
    ELSE LET pieces == split(userDestinationWithRejectTreatment, FORMAT_REJECT_SEPARATOR)
         IN IF Len(pieces) < 2 THEN globalRejectTreatment
            ELSE OrElse(trim(pieces[2]), globalRejectTreatment)

\* array.map(s => s.trim())
trimAll(array) == [i \in 1..Len(array) |-> trim(array[i])]

\* messageUserIsAllowed without the test of the user's stored entry
messageUserIsAllowedByUsersOnly ==
    \/ globalUsers = <<"*">>
    \/ arrayIncludes(trimAll(split(globalUsers, FORMAT_REDUNDANT_ADDRESS_SEPARATOR)),
                     messageUser)

messageUserIsAllowed ==
    \/ userDestinationWithRejectTreatment # Undefined
    \/ globalUsers = <<"*">>
    \/ arrayIncludes(trimAll(split(globalUsers, FORMAT_REDUNDANT_ADDRESS_SEPARATOR)),
                     messageUser)

\* messageSubaddressIsAllowed with a message without subaddress always allowed
messageSubaddressIsAllowedUnlessListed ==
    IF messageSubaddress = <<>>
    THEN TRUE
    ELSE \/ userConcreteSubaddresses = <<"*">>
         \/ arrayIncludes(
                trimAll(split(userConcreteSubaddresses,
                              FORMAT_REDUNDANT_ADDRESS_SEPARATOR)),
                messageSubaddress)

messageSubaddressIsAllowed ==
    IF messageSubaddress = <<>>
    THEN ~userRequiresSubaddress
    ELSE \/ userConcreteSubaddresses = <<"*">>
         \/ arrayIncludes(
                trimAll(split(userConcreteSubaddresses,
                              FORMAT_REDUNDANT_ADDRESS_SEPARATOR)),
                messageSubaddress)

(***************************************************************************)
(* email(): destination validation (src/worker.js:415-459).                *)
(***************************************************************************)
\* The reduce of validateRedundantDestination over the candidates left
RECURSIVE reduceRedundant(_, _)
reduceRedundant(basicDestinations, newRedundantDestination) ==
    IF basicDestinations = <<>> THEN newRedundantDestination
    ELSE LET simpleDestination ==
                 prepend(trim(Head(basicDestinations)),
                         <<[regExp |-> FALSE, test |-> FORMAT_LOCAL_PART_SEPARATOR,
                            prepend |-> messageUser],
                           [regExp |-> FALSE, test |-> <<"@">>,
                            prepend |-> messageUser]>>)
             next ==
                 IF isValidEmailAddress(simpleDestination)
                 THEN [newRedundantDestination EXCEPT
                          !.validSimple = Append(@, simpleDestination)]
                 ELSE IF simpleDestination # <<>>
                 THEN [newRedundantDestination EXCEPT
                          !.invalidSimple = Append(@, simpleDestination)]
                 ELSE newRedundantDestination
         IN reduceRedundant(Tail(basicDestinations), next)

validateRedundantDestination(redundantDestinationText) ==
    reduceRedundant(split(redundantDestinationText, FORMAT_SIMPLE_ADDRESS_SEPARATOR),
                    [validSimple |-> <<>>, invalidSimple |-> <<>>])

\* The inner reduce of validateMultiDestination: drops the addresses already
\* accepted anywhere in the multi-destination. acc carries newMultiDestination
\* and the deduplicated redundant destination built so far.
RECURSIVE reduceDedupe(_, _)
\* The inner reduce of validateMultiDestination keeping every address, also
\* those accepted before
reduceKeepingDuplicates(validSimple, acc) ==
    [multi |-> [acc.multi EXCEPT !.validSimple = @ \o validSimple],
     deduped |-> acc.deduped \o validSimple]

reduceDedupe(validSimple, acc) ==
    IF validSimple = <<>> THEN acc
    ELSE LET destination == Head(validSimple)
             next ==
                 IF ~arrayIncludes(acc.multi.validSimple, destination)
                 THEN [multi |-> [acc.multi EXCEPT
                                     !.validSimple = Append(@, destination)],
                       deduped |-> Append(acc.deduped, destination)]
                 ELSE [multi |-> [acc.multi EXCEPT
                                     !.duplicateSimple = Append(@, destination)],
                       deduped |-> acc.deduped]
         IN reduceDedupe(Tail(validSimple), next)

\* The outer reduce. invalidSimple.concat(...) returns a new array that the
\* code drops, so newMultiDestination.invalidSimple stays as it was.
RECURSIVE reduceMulti(_, _)
reduceMulti(redundantDestinationTexts, newMultiDestination) ==
    IF redundantDestinationTexts = <<>> THEN newMultiDestination
    ELSE LET nonDedupedredundantDestination ==
                 validateRedundantDestination(Head(redundantDestinationTexts))
             acc == reduceDedupe(nonDedupedredundantDestination.validSimple,
                                 [multi |-> newMultiDestination, deduped |-> <<>>])
             next ==
                 IF Len(acc.deduped) > 0
                 THEN [acc.multi EXCEPT !.validRedundant = Append(@, acc.deduped)]
                 ELSE acc.multi
         IN reduceMulti(Tail(redundantDestinationTexts), next)

validateMultiDestination(multiDestinationText) ==
    reduceMulti(split(multiDestinationText, FORMAT_REDUNDANT_ADDRESS_SEPARATOR),
                [validRedundant |-> <<>>, validSimple |-> <<>>,
                 invalidSimple |-> <<>>, duplicateSimple |-> <<>>])

\* warnAboutBadDestinations: the warnings it writes, one for each issue that
\* has destinations
warnAboutBadDestinations(theMessageUser, validatedMultiDestination, destinationType) ==
    LET issues ==
            <<[description |-> "invalidly formatted",
               destinations |-> validatedMultiDestination.invalidSimple],
              [description |-> "duplicate",
               destinations |-> validatedMultiDestination.duplicateSimple]>>
        isWarned(issue) == Len(issue.destinations) > 0
        warned == SelectSeq(issues, isWarned)
    IN [i \in 1..Len(warned) |->
           [messageUser |-> theMessageUser,
            issue |-> warned[i].description,
            destinationType |-> destinationType,
            destinations |-> warned[i].destinations]]

(***************************************************************************)
(* The delivery primitive message.forward and the errors it throws.        *)
(***************************************************************************)
\* FIXED.RECOVERABLE_FORWARD_IMPLEMENTATION_ERROR_MESSAGE_1
RECOVERABLE_FORWARD_IMPLEMENTATION_ERROR_MESSAGE_1 ==
    <<"c", "o", "u", "l", "d", " ", "n", "o", "t", " ", "s", "e", "n", "d",
      " ", "e", "m", "a", "i", "l", ":", " ", "U", "n", "k", "n", "o", "w",
      "n", " ", "e", "r", "r", "o", "r", ":", " ", "t", "r", "a", "n", "s",
      "i", "e", "n", "t", " ", "e", "r", "r", "o", "r">>
\* An error message of the platform that the pattern does not match
\* (src/test/failover.js:14)
UNRECOVERABLE_FORWARD_IMPLEMENTATION_ERROR_MESSAGE ==
    <<"U", "n", "r", "e", "c", "o", "v", "e", "r", "a", "b", "l", "e", " ",
      "F", "o", "r", "w", "a", "r", "d", " ", "I", "m", "p", "l", "e", "m",
      "e", "n", "t", "a", "t", "i", "o", "n", " ", "E", "r", "r", "o", "r">>
\* The platform's message for a destination that is not verified, which
\* earlier versions of the worker name
\* (src/unnamed/part_002:147, UNVERIFIED_DESTINATION_ERROR_MESSAGE)
UNVERIFIED_DESTINATION_ERROR_MESSAGE ==
    <<"d", "e", "s", "t", "i", "n", "a", "t", "i", "o", "n", " ", "a", "d",
      "d", "r", "e", "s", "s", " ", "n", "o", "t", " ", "v", "e", "r", "i",
      "f", "i", "e", "d">>
\* FIXED.RECOVERABLE_FORWARD_INTERFACE_ERROR_MESSAGE, the message of
\* RecoverableForwardError
RECOVERABLE_FORWARD_INTERFACE_ERROR_MESSAGE ==
    <<"R", "e", "c", "o", "v", "e", "r", "a", "b", "l", "e", " ", "F", "o",
      "r", "w", "a", "r", "d", " ", "F", "a", "i", "l", "u", "r", "e">>

\* The pattern matching the message of an unverified destination as well
recoverableOrUnverifiedErrorRegExp(errorMessage) ==
    \/ startsWith(errorMessage, RECOVERABLE_FORWARD_IMPLEMENTATION_ERROR_MESSAGE_1)
    \/ startsWith(errorMessage, UNVERIFIED_DESTINATION_ERROR_MESSAGE)

\* DEFAULTS.RECOVERABLE_FORWARD_IMPLEMENTATION_ERROR_REGEXP: the escaped
\* message 1, anchored at the start
recoverableForwardImplementationErrorRegExp(errorMessage) ==
    startsWith(errorMessage, RECOVERABLE_FORWARD_IMPLEMENTATION_ERROR_MESSAGE_1)

\* The messages message.forward fails with
ErrorMessages ==
    {RECOVERABLE_FORWARD_IMPLEMENTATION_ERROR_MESSAGE_1,
     UNRECOVERABLE_FORWARD_IMPLEMENTATION_ERROR_MESSAGE,
     UNVERIFIED_DESTINATION_ERROR_MESSAGE}

\* The result of a call of message.forward that has not settled, and of one
\* that delivered
Pending == <<"pending">>
Delivered == <<"delivered">>

(***************************************************************************)
(* The inputs of an invocation.                                            *)
(***************************************************************************)
\* The address written for place k of redundant destination g
GroupLetters == <<"a", "b", "c", "d", "e", "f">>
DigitOf == <<"1", "2", "3", "4", "5", "6", "7", "8", "9">>
AddressOf(g, k) == <<GroupLetters[g], DigitOf[k], "@", "x">>

\* array.join(separator)
RECURSIVE join(_, _)
join(array, separator) ==
    IF array = <<>> THEN <<>>
    ELSE IF Len(array) = 1 THEN array[1]
    ELSE array[1] \o separator \o join(Tail(array), separator)

\* A destination text with sizes[g] addresses in its g-th redundant destination
TextOfSizes(sizes) ==
    join([g \in 1..Len(sizes) |->
            join([k \in 1..sizes[g] |-> AddressOf(g, k)],
                 FORMAT_SIMPLE_ADDRESS_SEPARATOR)],
         FORMAT_REDUNDANT_ADDRESS_SEPARATOR)

RECURSIVE Sum(_)
Sum(sizes) == IF sizes = <<>> THEN 0 ELSE Head(sizes) + Sum(Tail(sizes))

\* The shapes of a destination: the number of addresses of each of its
\* redundant destinations
Sizes ==
    {sizes \in UNION {[1..n -> 1..MaxAddresses] : n \in 0..MaxAddresses} :
        Sum(sizes) <= MaxAddresses}

\* DESTINATION texts of every shape within the bounds
ShapedDestinationTexts == {TextOfSizes(sizes) : sizes \in Sizes}

\* DESTINATION not given, one address, and texts with a blank, an invalid
\* and a repeated candidate and with candidates to prepend the user to
OtherDestinationTexts ==
    {Undefined,
     <<"a", "1", "@", "x">>,
     <<"b", "a", "d">>,
     <<" ", "a", "1", "@", "x", " ", ":", "b", "a", "d", ",", "a", "1", "@", "x">>,
     <<"@", "x", ":", ":", "+", "t", "@", "x">>}

\* REJECT_TREATMENT: not given, a reason, or reject destinations
RejectTreatments ==
    {Undefined,
     <<"n", "o", " ", "u", "s", "e", "r">>,
     <<"r", "1", "@", "x">>,
     <<"r", "1", "@", "x", ":", "r", "2", "@", "x">>,
     <<"r", "1", "@", "x", ",", "s", "1", "@", "x">>}

Recipients ==
    {<<"u", "@", "d">>, <<"U", "+", "T", "@", "d">>, <<"v", "@", "d">>}

\* The KV store: empty, or with an entry for user v
Stores ==
    {<<>>,
     [key \in {<<"v">>} |-> <<"k", "1", "@", "x", ";", "r", "1", "@", "x">>]}

EnvironmentOf(destination, rejectTreatment, users) ==
    [USE_STORED_ADDRESS_CONFIGURATION |-> Undefined,
     USE_STORED_USER_CONFIGURATION |-> Undefined,
     DESTINATION |-> destination,
     REJECT_TREATMENT |-> rejectTreatment,
     SUBADDRESSES |-> Undefined,
     USERS |-> users,
     CUSTOM_HEADER |-> Undefined,
     CUSTOM_HEADER_FAIL |-> Undefined,
     CUSTOM_HEADER_PASS |-> Undefined]

\* An allowed user's message with a destination of every shape, as in
\* src/test/failover.js
ForwardingInputs ==
    {[to |-> <<"u", "@", "d">>,
      environment |-> EnvironmentOf(destination, rejectTreatment, <<"u">>),
      MAP |-> <<>>] :
        destination \in ShapedDestinationTexts,
        rejectTreatment \in RejectTreatments \ {Undefined, <<"r", "1", "@", "x">>}}

\* Every recipient, allowed users setting, store and reject treatment with
\* the other destinations
PolicyInputs ==
    {[to |-> to,
      environment |-> EnvironmentOf(destination, rejectTreatment, users),
      MAP |-> store] :
        to \in Recipients,
        destination \in OtherDestinationTexts,
        rejectTreatment \in RejectTreatments,
        users \in {Undefined, <<"u">>},
        store \in Stores}

\* The KV store holding the given values under the four global keys and the
\* two keys of user u; Null stands for a key that is not stored
StoreOf(destination, rejectTreatment, subaddresses, users, user, userPlus) ==
    LET all == (<<"@", "DESTINATION">> :> destination)
               @@ (<<"@", "REJECT_TREATMENT">> :> rejectTreatment)
               @@ (<<"@", "SUBADDRESSES">> :> subaddresses)
               @@ (<<"@", "USERS">> :> users)
               @@ (<<"u">> :> user)
               @@ (<<"u", "+">> :> userPlus)
        stored == {key \in DOMAIN all : all[key] # Null}
    IN [key \in stored |-> all[key]]

\* Values of USE_STORED_ADDRESS_CONFIGURATION and USE_STORED_USER_CONFIGURATION
StoredFlags == {Undefined, <<"f", "a", "l", "s", "e">>}

\* The environment with every address setting given, or with none
GivenEnvironments ==
    {EnvironmentOf(Undefined, Undefined, Undefined),
     [EnvironmentOf(<<"a", "1", "@", "x">>, <<"n", "o", " ", "u", "s", "e", "r">>,
                    <<"u">>)
         EXCEPT !.SUBADDRESSES = <<"+", "t">>]}

\* Stored global configuration, as in src/test/basic.js 'KV globals override
\* environment variables': each global key missing, empty or with a value
GlobalStoreInputs ==
    {[to |-> to,
      environment |-> [given EXCEPT !.USE_STORED_ADDRESS_CONFIGURATION = flag],
      MAP |-> StoreOf(destination, rejectTreatment, subaddresses, users, Null, Null)] :
        to \in {<<"u", "@", "d">>, <<"U", "+", "T", "@", "d">>},
        flag \in StoredFlags,
        given \in GivenEnvironments,
        destination \in {Null, <<>>, <<"g", "1", "@", "x">>},
        rejectTreatment \in {Null, <<>>, <<"g", "o", "n", "e">>},
        subaddresses \in {Null, <<>>, <<"+", "*">>},
        users \in {Null, <<>>, <<" ", "U">>}}

\* Stored user configuration, as in src/test/basic.js 'KV users override KV
\* globals' and 'KV user destination of empty string defaulting to global
\* destination': the user's two keys missing, empty or with a value, under
\* every allowed users and subaddresses setting
UserStoreInputs ==
    {[to |-> to,
      environment |->
          [EnvironmentOf(<<"a", "1", "@", "x">>, <<"n", "o", " ", "u", "s", "e", "r">>,
                         users)
              EXCEPT !.USE_STORED_USER_CONFIGURATION = flag,
                     !.SUBADDRESSES = subaddresses],
      MAP |-> StoreOf(Null, Null, Null, Null, user, userPlus)] :
        to \in {<<"u", "@", "d">>, <<"U", "+", "T", "@", "d">>, <<"u", "+", "s", "@", "d">>},
        flag \in StoredFlags,
        users \in {Undefined, <<"w">>, <<"*">>, <<"w", ",", " ", "u">>},
        subaddresses \in {Undefined, <<>>, <<"+">>, <<"+", "t">>,
                          <<"s", ",", " ", "T">>, <<"+", "*">>},
        user \in {Null, <<>>, <<" ">>, <<" ", ";", "r", "1", "@", "x">>,
                  <<"k", "1", "@", "x">>, <<"k", "1", "@", "x", ";", "g", "o", "n", "e">>},
        userPlus \in {Null, <<>>, <<"+">>, <<"t">>}}

\* Both flags in every combination over a store that holds all six keys
GateInputs ==
    {[to |-> to,
      environment |->
          [EnvironmentOf(<<"a", "1", "@", "x">>, <<"n", "o", " ", "u", "s", "e", "r">>,
                         <<"w">>)
              EXCEPT !.USE_STORED_ADDRESS_CONFIGURATION = addressFlag,
                     !.USE_STORED_USER_CONFIGURATION = userFlag],
      MAP |-> StoreOf(<<"g", "1", "@", "x">>, <<"g", "o", "n", "e">>, <<"+", "t">>,
                      <<"u">>, <<"k", "1", "@", "x", ";", "r", "1", "@", "x">>, <<"*">>)] :
        to \in {<<"u", "@", "d">>, <<"U", "+", "T", "@", "d">>},
        addressFlag \in StoredFlags \cup {<<" ", "T", "r", "u", "e">>, <<"1">>},
        userFlag \in StoredFlags \cup {<<" ", "T", "r", "u", "e">>, <<"1">>}}

\* A custom header that is valid only after trimming, and an invalid one,
\* with pass and fail values to trim
HeaderInputs ==
    {[to |-> <<"u", "@", "d">>,
      environment |->
          [EnvironmentOf(<<"a", "1", "@", "x">>, <<"r", "1", "@", "x">>, <<"u">>)
              EXCEPT !.CUSTOM_HEADER = header,
                     !.CUSTOM_HEADER_PASS = <<" ", "o", "k">>,
                     !.CUSTOM_HEADER_FAIL = <<"k", "o", " ">>],
      MAP |-> <<>>] :
        header \in {<<" ", "X", "-", "H", " ">>, <<"H">>, <<"x", "-", "h">>,
                    <<"a", "X", "-">>, <<" ">>}}

\* DESTINATION texts with repeated, blank and invalid candidates, with
\* candidates to prepend the user to, and with upper case letters, as in
\* src/test/multidestination.js and src/test/basic.js
ValidationDestinationTexts ==
    {<<"a", "1", "@", "x", ":", "a", "1", "@", "x">>,
     <<"a", "1", "@", "x", ",", " ", "a", "1", "@", "x">>,
     <<"a", "1", "@", "x", ":", "b", "1", "@", "x", ",",
       "b", "1", "@", "x", ":", "a", "1", "@", "x", ":", "c", "1", "@", "x">>,
     <<",", "a", "1", "@", "x", ",", ",", " ", ":">>,
     <<"+", "t", "@", "x", ":", "@", "x", ",", "u", "+", "t", "@", "x">>,
     <<"A", "1", "@", "x", ",", "a", "1", "@", "x">>,
     <<"K", "1", "@", "X">>,
     <<"a", "1", "@", "x", ":", "b", " ", "d", ",", "a", "1", "@", "x">>,
     <<" ", "a", " ", "1", "@", "x", " ", ",", "b", "1", "@", "x">>}

ValidationInputs ==
    {[to |-> to,
      environment |-> EnvironmentOf(destination, rejectTreatment, <<"u">>),
      MAP |-> <<>>] :
        to \in {<<"u", "@", "d">>, <<"U", "+", "T", "@", "d">>},
        destination \in ValidationDestinationTexts,
        rejectTreatment \in {<<"n", "o", " ", "u", "s", "e", "r">>,
                             <<"+", "r", "@", "x", ":", "@", "x", ",", "R", "1", "@", "x">>}}

\* The reject treatment of the user's entry, of the stored global
\* configuration and of the environment, each missing, a reject destination
\* or a reason, as in src/test/basic.js 'Prepending of local-part to reject
\* reason'; the user is admitted by the entry alone
RejectReasonInputs ==
    {[to |-> to,
      environment |-> EnvironmentOf(<<"a", "1", "@", "x">>, rejectTreatment, <<"w">>),
      MAP |-> StoreOf(Null, stored, Null, Null, user, Null)] :
        to \in {<<"u", "@", "d">>, <<"U", "+", "T", "@", "d">>},
        rejectTreatment \in {Undefined, <<"e", "1", "@", "x">>,
                             <<"n", "o", " ", "u", "s", "e", "r">>,
                             <<" ", "!", "b", "y", "e", " ">>, <<"9", "x">>},
        stored \in {Null, <<>>, <<"g", "1", "@", "x">>, <<"s", "o", "r", "r", "y">>,
                    <<":", " ", "s", "o", "r", "r", "y">>},
        user \in {Null, <<"k", "1", "@", "x", ";", "r", "1", "@", "x">>,
                  <<"k", "1", "@", "x", ";", "g", "o", "n", "e">>,
                  <<"k", "1", "@", "x", ";", " ", ":", " ", "g", "o">>}}

\* Recipients that differ in letter case alone, users and subaddresses
\* configured in lower and upper case, and destinations with upper case
\* letters, as in src/test/basic.js 'Message local part comparision is case
\* insensitive; Destination is case sensitive' (environment, and KV)
CaseInputs ==
    {[to |-> to,
      environment |->
          [EnvironmentOf(destination, <<"n", "o", " ", "u", "s", "e", "r">>, users)
              EXCEPT !.SUBADDRESSES = subaddresses],
      MAP |-> store] :
        to \in {<<"u", "@", "d">>, <<"U", "@", "d">>, <<"u", "+", "t", "@", "d">>,
                <<"U", "+", "T", "@", "d">>, <<"u", "+", "T", "@", "d">>},
        destination \in {<<"K", "1", "@", "X">>,
                         <<"+", "T", "@", "x", ":", "A", "1", "@", "x">>},
        users \in {<<"u">>, <<"W", ",", "U">>, <<"w">>},
        subaddresses \in {<<"T">>, <<"+", "t">>},
        store \in {StoreOf(Null, Null, Null, Null, Null, Null),
                   StoreOf(<<"G", "1", "@", "x">>, Null, <<"T">>, Null, <<>>, Null),
                   StoreOf(Null, Null, Null, Null, <<"B", "1", "@", "x">>, <<"T">>)}}

\* Recipients whose local part has no user, no subaddress or more than one
\* local-part separator, with and without allowed users and with a
\* subaddress that holds the separator
LocalPartInputs ==
    {[to |-> to,
      environment |->
          [EnvironmentOf(<<"a", "1", "@", "x">>, <<"n", "o", " ", "u", "s", "e", "r">>,
                         users)
              EXCEPT !.SUBADDRESSES = subaddresses],
      MAP |-> store] :
        to \in {<<"@", "d">>, <<"+", "t", "@", "d">>, <<"u", "+", "@", "d">>,
                <<"U", "+", "S", "+", "T", "@", "d">>, <<"+", "@", "d">>},
        users \in {Undefined, <<>>, <<" ">>, <<"u">>, <<"u", ",">>},
        subaddresses \in {Undefined, <<"s", "+", "t">>},
        store \in {StoreOf(Null, Null, Null, Null, Null, Null),
                   StoreOf(Null, Null, Null, <<>>, <<"k", "1", "@", "x">>, Null)}}

Inputs ==
    ForwardingInputs \cup PolicyInputs \cup GlobalStoreInputs
    \cup UserStoreInputs \cup GateInputs \cup HeaderInputs \cup ValidationInputs
    \cup RejectReasonInputs \cup CaseInputs \cup LocalPartInputs

NoError == <<"none">>

Init ==
    /\ \E input \in Inputs :
          /\ messageTo = input.to
          /\ environment = input.environment
          /\ MAP = input.MAP
    /\ pc = "email"
    /\ kvReads = {}
    /\ acceptForwardWasSuccessful = FALSE
    /\ rejectForwardWasSuccessful = FALSE
    /\ multiDestination = <<>>
    /\ customHeaders = <<>>
    /\ started = 0
    /\ running = 0
    /\ rd = <<>>
    /\ thrown = NoError
    /\ forwardCalls = [AcceptForwarding |-> <<>>, RejectForwarding |-> <<>>]
    /\ forwardOutcome = [AcceptForwarding |-> "none", RejectForwarding |-> "none"]
    /\ setRejectCalls = <<>>

(***************************************************************************)
(* email(), to the accept forward (src/worker.js:346-573).                 *)
(***************************************************************************)
GlobalKeys == {KeyDESTINATION, KeyREJECT_TREATMENT, KeySUBADDRESSES, KeyUSERS}
UserKeys == {messageUser, messageUser \o FORMAT_LOCAL_PART_SEPARATOR}

\* LoadConfiguration writing the defaults into the environment object
\* (Object.assign(environment, DEFAULTS) for the spread of line 326)
LoadConfigurationAssigningDefaults ==
    /\ pc = "email"
    /\ IF customHeaderIsValid
       THEN /\ pc' = "accept"
            /\ kvReads' =
                 (IF useStoredAddressGlobalConfiguration THEN GlobalKeys ELSE {})
                 \cup (IF useStoredUserConfiguration THEN UserKeys ELSE {})
            /\ thrown' = thrown
       ELSE /\ pc' = "threw"
            /\ kvReads' =
                 (IF useStoredAddressGlobalConfiguration THEN GlobalKeys ELSE {})
            /\ thrown' = <<"Invalid custom header">>
    /\ environment' = [name \in DOMAIN environment |-> Configured(name)]
    /\ UNCHANGED <<messageTo, MAP, acceptForwardWasSuccessful,
                   rejectForwardWasSuccessful, multiDestination, customHeaders,
                   started, running, rd, forwardCalls, forwardOutcome,
                   setRejectCalls>>

\* Lines 346-550: the stored and environment configuration is loaded and
\* validated; an invalid custom header is thrown before the user's keys are read
LoadConfiguration ==
    /\ pc = "email"
    /\ IF customHeaderIsValid
       THEN /\ pc' = "accept"
            /\ kvReads' =
                 (IF useStoredAddressGlobalConfiguration THEN GlobalKeys ELSE {})
                 \cup (IF useStoredUserConfiguration THEN UserKeys ELSE {})
            /\ thrown' = thrown
       ELSE /\ pc' = "threw"
            /\ kvReads' =
                 (IF useStoredAddressGlobalConfiguration THEN GlobalKeys ELSE {})
            /\ thrown' = <<"Invalid custom header">>
    /\ UNCHANGED <<inputs, acceptForwardWasSuccessful, rejectForwardWasSuccessful,
                   multiDestination, customHeaders, started, running, rd,
                   forwardCalls, forwardOutcome, setRejectCalls>>

\* forwardToRedundantDestination's locals at its entry (lines 178-182)
NewRedundantDestination ==
    [pc |-> "idle", s |-> 0, wasSuccessful |-> FALSE,
     hadRecoverableError |-> FALSE, errors |-> <<>>]

\* The call of forwardToMultiDestination: nothing of it has run yet
CallForwardToMultiDestination(actionType, theMultiDestination, headers) ==
    /\ pc' = actionType
    /\ multiDestination' = theMultiDestination
    /\ customHeaders' = headers
    /\ started' = 0
    /\ running' = 0
    /\ rd' = [g \in 1..Len(theMultiDestination) |-> NewRedundantDestination]
    /\ forwardCalls' =
         [forwardCalls EXCEPT ![actionType] =
             [g \in 1..Len(theMultiDestination) |-> <<>>]]
    /\ forwardOutcome' = [forwardOutcome EXCEPT ![actionType] = "called"]

\* Lines 555-556 and 577-578: the validated destinations of the two forwards
acceptMultiDestination == validateMultiDestination(userDestination)
rejectMultiDestination == validateMultiDestination(userRejectTreatment)

\* AcceptForward without the test of the user and the subaddress
AcceptForwardUnconditional ==
    /\ pc = "accept"
    /\ CallForwardToMultiDestination(
           "AcceptForwarding",
           acceptMultiDestination.validRedundant,
           <<customHeader, customHeaderPass>>)
    /\ UNCHANGED <<inputs, kvReads, acceptForwardWasSuccessful,
                   rejectForwardWasSuccessful, thrown, setRejectCalls>>

\* Lines 553-573
AcceptForward ==
    /\ pc = "accept"
    /\ IF messageUserIsAllowed /\ messageSubaddressIsAllowed
       THEN CallForwardToMultiDestination(
                "AcceptForwarding",
                acceptMultiDestination.validRedundant,
                <<customHeader, customHeaderPass>>)
       ELSE /\ pc' = "reject"
            /\ UNCHANGED <<multiDestination, customHeaders, started, running, rd,
                           forwardCalls, forwardOutcome>>
    /\ UNCHANGED <<inputs, kvReads, acceptForwardWasSuccessful,
                   rejectForwardWasSuccessful, thrown, setRejectCalls>>

(***************************************************************************)
(* forwardToRedundantDestination (src/worker.js:176-224). Its code runs    *)
(* without interruption from one await to the next: `running` names the    *)
(* redundant destination whose code runs now.                              *)
(***************************************************************************)
Forwarding == pc \in {"AcceptForwarding", "RejectForwarding"}

\* Lines 183 and 217: the loop's next round, or the return after its last
AtLoop(g, locals) ==
    IF locals.s < Len(multiDestination[g])
    THEN [locals EXCEPT !.pc = "loop"]
    ELSE [locals EXCEPT !.pc = "returned"]

\* Lines 198-200: the forward succeeded; break leaves s as it is
Succeeded(locals) ==
    [locals EXCEPT !.wasSuccessful = TRUE, !.pc = "returned"]

\* Caught with s advanced by two: the address after a failed one is skipped
CaughtSkipping(g, locals, errorMessage) ==
    AtLoop(g,
        [locals EXCEPT
            !.errors = Append(@, errorMessage),
            !.hadRecoverableError =
                @ \/ recoverableForwardImplementationErrorRegExp(errorMessage),
            !.s = @ + 2])

\* Caught with hadRecoverableError assigned from the last error alone
CaughtLastErrorOnly(g, locals, errorMessage) ==
    AtLoop(g,
        [locals EXCEPT
            !.errors = Append(@, errorMessage),
            !.hadRecoverableError =
                recoverableForwardImplementationErrorRegExp(errorMessage),
            !.s = @ + 1])

\* Caught with hadRecoverableError set by every error
CaughtAnyErrorRecoverable(g, locals, errorMessage) ==
    AtLoop(g,
        [locals EXCEPT
            !.errors = Append(@, errorMessage),
            !.hadRecoverableError = TRUE,
            !.s = @ + 1])

\* The catch block staying at an address after its first failure, to try it
\* once more
CaughtRetryingOnce(g, locals, errorMessage) ==
    AtLoop(g,
        [locals EXCEPT
            !.errors = Append(@, errorMessage),
            !.hadRecoverableError =
                @ \/ recoverableForwardImplementationErrorRegExp(errorMessage),
            !.s = IF (Len(locals.errors) + 1) % 2 = 0 THEN @ + 1 ELSE @])

\* Lines 202-215: the catch block, then s++ and the loop's next round
Caught(g, locals, errorMessage) ==
    AtLoop(g,
        [locals EXCEPT
            !.errors = Append(@, errorMessage),
            !.hadRecoverableError =
                @ \/ recoverableForwardImplementationErrorRegExp(errorMessage),
            !.s = @ + 1])

\* The redundant destination that runs as long as its code has not reached
\* an await or its return
StillRunning(g, locals) == IF locals.pc = "loop" THEN g ELSE 0

\* message.forward is called once more: the call is recorded with its result
RecordCall(g, destination, result) ==
    forwardCalls' =
        [forwardCalls EXCEPT ![pc][g] =
            Append(@, [destination |-> destination, headers |-> customHeaders,
                       result |-> result])]

\* The last call of redundant destination g settles with a result
RecordResult(g, result) ==
    forwardCalls' =
        [forwardCalls EXCEPT ![pc][g][Len(forwardCalls[pc][g])].result = result]

\* Line 248-252: map() enters the next redundant destination, when the one
\* before it has reached its first await or returned
StartRedundantDestination(g) ==
    /\ Forwarding
    /\ running = 0
    /\ g = started + 1
    /\ g <= Len(multiDestination)
    /\ started' = g
    /\ rd' = [rd EXCEPT ![g] = AtLoop(g, rd[g])]
    /\ running' = StillRunning(g, rd'[g])
    /\ UNCHANGED <<inputs, pc, kvReads, acceptForwardWasSuccessful,
                   rejectForwardWasSuccessful, multiDestination, customHeaders,
                   thrown, forwardCalls, forwardOutcome, setRejectCalls>>

\* Line 197: message.forward(simpleDestination, customHeaders) is called. It
\* throws at once, or it returns and the await suspends the function.
Forward(g) ==
    /\ Forwarding
    /\ running = g
    /\ rd[g].pc = "loop"
    /\ LET simpleDestination == multiDestination[g][rd[g].s + 1]
       IN \/ /\ rd' = [rd EXCEPT ![g].pc = "awaiting"]
             /\ running' = 0
             /\ RecordCall(g, simpleDestination, Pending)
          \/ \E errorMessage \in ErrorMessages :
             /\ rd' = [rd EXCEPT ![g] = Caught(g, rd[g], errorMessage)]
             /\ running' = StillRunning(g, rd'[g])
             /\ RecordCall(g, simpleDestination, errorMessage)
    /\ UNCHANGED <<inputs, pc, kvReads, acceptForwardWasSuccessful,
                   rejectForwardWasSuccessful, multiDestination, customHeaders,
                   started, thrown, forwardOutcome, setRejectCalls>>

\* The awaited forward settles, once map() has started every redundant
\* destination and no other code runs: it delivered, or it failed
Settle(g) ==
    /\ Forwarding
    /\ running = 0
    /\ started = Len(multiDestination)
    /\ g \in 1..Len(multiDestination)
    /\ rd[g].pc = "awaiting"
    /\ \/ /\ rd' = [rd EXCEPT ![g] = Succeeded(rd[g])]
          /\ running' = 0
          /\ RecordResult(g, Delivered)
       \/ \E errorMessage \in ErrorMessages :
          /\ rd' = [rd EXCEPT ![g] = Caught(g, rd[g], errorMessage)]
          /\ running' = StillRunning(g, rd'[g])
          /\ RecordResult(g, errorMessage)
    /\ UNCHANGED <<inputs, pc, kvReads, acceptForwardWasSuccessful,
                   rejectForwardWasSuccessful, multiDestination, customHeaders,
                   started, thrown, forwardOutcome, setRejectCalls>>

\* The result of redundant destination g with hadRecoverableError written
\* to one object that all redundant destinations share
RedundantDestinationResultShared(g) ==
    [wasSuccessful |-> rd[g].wasSuccessful,
     hadRecoverableError |-> \E h \in DOMAIN rd : rd[h].hadRecoverableError,
     successfulDestination |->
        IF rd[g].wasSuccessful THEN multiDestination[g][rd[g].s + 1] ELSE Null,
     errors |-> rd[g].errors]

\* Lines 217-223: the RedundantDestinationResult of redundant destination g
RedundantDestinationResult(g) ==
    [wasSuccessful |-> rd[g].wasSuccessful,
     hadRecoverableError |-> rd[g].hadRecoverableError,
     successfulDestination |->
        IF rd[g].wasSuccessful THEN multiDestination[g][rd[g].s + 1] ELSE Null,
     errors |-> rd[g].errors]

(***************************************************************************)
(* forwardToMultiDestination after Promise.all (src/worker.js:254-283).    *)
(***************************************************************************)
redundantDestinationResults ==
    [g \in 1..Len(multiDestination) |-> RedundantDestinationResult(g)]

\* Promise.race for Promise.all: one result is enough
AnyReturned ==
    /\ started = Len(multiDestination)
    /\ \E g \in 1..Len(multiDestination) : rd[g].pc = "returned"

\* Promise.all has every result
AllReturned ==
    /\ started = Len(multiDestination)
    /\ \A g \in 1..Len(multiDestination) : rd[g].pc = "returned"

\* wasSuccessful without the test that there is a redundant destination
wasSuccessfulWithoutLengthTest ==
    \A g \in 1..Len(multiDestination) :
        redundantDestinationResults[g].wasSuccessful

wasSuccessful ==
    /\ Len(multiDestination) > 0
    /\ \A g \in 1..Len(multiDestination) :
          redundantDestinationResults[g].wasSuccessful

\* The test of line 257 without the test that there is a redundant destination
everyRedundantDestinationWasSuccessfulOrHadARecoverableError ==
    \A g \in 1..Len(multiDestination) :
        \/ redundantDestinationResults[g].wasSuccessful
        \/ redundantDestinationResults[g].hadRecoverableError

\* The test of line 257 without "result.wasSuccessful ||"
allRedundantDestinationsHadARecoverableError ==
    /\ Len(multiDestination) > 0
    /\ \A g \in 1..Len(multiDestination) :
          redundantDestinationResults[g].hadRecoverableError

\* The test of line 257 with some() for every()
someRedundantDestinationWasSuccessfulOrHadARecoverableError ==
    /\ Len(multiDestination) > 0
    /\ \E g \in 1..Len(multiDestination) :
          \/ redundantDestinationResults[g].wasSuccessful
          \/ redundantDestinationResults[g].hadRecoverableError

allRedundantDestinationsWereSuccessfulOrHadARecoverableError ==
    /\ Len(multiDestination) > 0
    /\ \A g \in 1..Len(multiDestination) :
          \/ redundantDestinationResults[g].wasSuccessful
          \/ redundantDestinationResults[g].hadRecoverableError

\* Line 280 throwing on every failure, recoverable or not
throwsOnAnyFailure == ~wasSuccessful

\* Line 280 throwing only when no redundant destination was successful
throwsWhenNothingWasDelivered ==
    /\ allRedundantDestinationsWereSuccessfulOrHadARecoverableError
    /\ \A g \in 1..Len(multiDestination) :
          ~redundantDestinationResults[g].wasSuccessful

\* Line 280
throwsRecoverableForwardError ==
    ~wasSuccessful /\ allRedundantDestinationsWereSuccessfulOrHadARecoverableError

(***************************************************************************)
(* email(), from the accept forward on (src/worker.js:564-614).            *)
(***************************************************************************)
\* AcceptForwardReturn with the returned value dropped
AcceptForwardReturnDroppingResult ==
    /\ pc = "AcceptForwarding"
    /\ AllReturned
    /\ IF throwsRecoverableForwardError
       THEN /\ pc' = "threw"
            /\ thrown' = RECOVERABLE_FORWARD_INTERFACE_ERROR_MESSAGE
            /\ forwardOutcome' = [forwardOutcome EXCEPT ![pc] = "threw"]
            /\ UNCHANGED acceptForwardWasSuccessful
       ELSE /\ pc' = "reject"
            /\ UNCHANGED acceptForwardWasSuccessful
            /\ forwardOutcome' =
                 [forwardOutcome EXCEPT
                     ![pc] = IF wasSuccessful THEN "true" ELSE "false"]
            /\ UNCHANGED thrown
    /\ UNCHANGED <<inputs, kvReads, rejectForwardWasSuccessful, multiDestination,
                   customHeaders, started, running, rd, forwardCalls,
                   setRejectCalls>>

\* AcceptForwardReturn with the error caught and the flow going on
AcceptForwardReturnSwallowing ==
    /\ pc = "AcceptForwarding"
    /\ AllReturned
    /\ pc' = "reject"
    /\ IF throwsRecoverableForwardError
       THEN /\ forwardOutcome' = [forwardOutcome EXCEPT ![pc] = "threw"]
            /\ UNCHANGED acceptForwardWasSuccessful
       ELSE /\ acceptForwardWasSuccessful' = wasSuccessful
            /\ forwardOutcome' =
                 [forwardOutcome EXCEPT
                     ![pc] = IF wasSuccessful THEN "true" ELSE "false"]
    /\ UNCHANGED <<inputs, kvReads, rejectForwardWasSuccessful, multiDestination,
                   customHeaders, started, running, rd, thrown, forwardCalls,
                   setRejectCalls>>

\* AcceptForwardReturn with the error message.forward threw leaving email(),
\* when the only redundant destination has one address
AcceptForwardReturnRethrowing ==
    /\ pc = "AcceptForwarding"
    /\ AllReturned
    /\ IF throwsRecoverableForwardError
       THEN /\ pc' = "threw"
            /\ thrown' =
                 IF Len(multiDestination) = 1 /\ Len(multiDestination[1]) = 1
                 THEN rd[1].errors[1]
                 ELSE RECOVERABLE_FORWARD_INTERFACE_ERROR_MESSAGE
            /\ forwardOutcome' = [forwardOutcome EXCEPT ![pc] = "threw"]
            /\ UNCHANGED acceptForwardWasSuccessful
       ELSE /\ pc' = "reject"
            /\ acceptForwardWasSuccessful' = wasSuccessful
            /\ forwardOutcome' =
                 [forwardOutcome EXCEPT
                     ![pc] = IF wasSuccessful THEN "true" ELSE "false"]
            /\ UNCHANGED thrown
    /\ UNCHANGED <<inputs, kvReads, rejectForwardWasSuccessful, multiDestination,
                   customHeaders, started, running, rd, forwardCalls,
                   setRejectCalls>>

\* Lines 564-572: forwardToMultiDestination returns into
\* acceptForwardWasSuccessful, or its error leaves email()
AcceptForwardReturn ==
    /\ pc = "AcceptForwarding"
    /\ AllReturned
    /\ IF throwsRecoverableForwardError
       THEN /\ pc' = "threw"
            /\ thrown' = RECOVERABLE_FORWARD_INTERFACE_ERROR_MESSAGE
            /\ forwardOutcome' = [forwardOutcome EXCEPT ![pc] = "threw"]
            /\ UNCHANGED acceptForwardWasSuccessful
       ELSE /\ pc' = "reject"
            /\ acceptForwardWasSuccessful' = wasSuccessful
            /\ forwardOutcome' =
                 [forwardOutcome EXCEPT
                     ![pc] = IF wasSuccessful THEN "true" ELSE "false"]
            /\ UNCHANGED thrown
    /\ UNCHANGED <<inputs, kvReads, rejectForwardWasSuccessful, multiDestination,
                   customHeaders, started, running, rd, forwardCalls,
                   setRejectCalls>>

\* RejectForward stamping the pass value on the reject forward
RejectForwardWithPassHeader ==
    /\ pc = "reject"
    /\ IF acceptForwardWasSuccessful
       THEN /\ pc' = "resolved"
            /\ UNCHANGED <<multiDestination, customHeaders, started, running, rd,
                           forwardCalls, forwardOutcome>>
       ELSE IF Len(rejectMultiDestination.validRedundant) > 0
            THEN CallForwardToMultiDestination(
                     "RejectForwarding",
                     rejectMultiDestination.validRedundant,
                     <<customHeader, customHeaderPass>>)
            ELSE /\ pc' = "directReject"
                 /\ UNCHANGED <<multiDestination, customHeaders, started,
                                running, rd, forwardCalls, forwardOutcome>>
    /\ UNCHANGED <<inputs, kvReads, acceptForwardWasSuccessful,
                   rejectForwardWasSuccessful, thrown, setRejectCalls>>

\* Lines 576-592
RejectForward ==
    /\ pc = "reject"
    /\ IF acceptForwardWasSuccessful
       THEN /\ pc' = "resolved"
            /\ UNCHANGED <<multiDestination, customHeaders, started, running, rd,
                           forwardCalls, forwardOutcome>>
       ELSE IF Len(rejectMultiDestination.validRedundant) > 0
            THEN CallForwardToMultiDestination(
                     "RejectForwarding",
                     rejectMultiDestination.validRedundant,
                     <<customHeader, customHeaderFail>>)
            ELSE /\ pc' = "directReject"
                 /\ UNCHANGED <<multiDestination, customHeaders, started,
                                running, rd, forwardCalls, forwardOutcome>>
    /\ UNCHANGED <<inputs, kvReads, acceptForwardWasSuccessful,
                   rejectForwardWasSuccessful, thrown, setRejectCalls>>

\* Lines 583-591
RejectForwardReturn ==
    /\ pc = "RejectForwarding"
    /\ AllReturned
    /\ IF throwsRecoverableForwardError
       THEN /\ pc' = "threw"
            /\ thrown' = RECOVERABLE_FORWARD_INTERFACE_ERROR_MESSAGE
            /\ forwardOutcome' = [forwardOutcome EXCEPT ![pc] = "threw"]
            /\ UNCHANGED rejectForwardWasSuccessful
       ELSE /\ pc' = "directReject"
            /\ rejectForwardWasSuccessful' = wasSuccessful
            /\ forwardOutcome' =
                 [forwardOutcome EXCEPT
                     ![pc] = IF wasSuccessful THEN "true" ELSE "false"]
            /\ UNCHANGED thrown
    /\ UNCHANGED <<inputs, kvReads, acceptForwardWasSuccessful, multiDestination,
                   customHeaders, started, running, rd, forwardCalls,
                   setRejectCalls>>

\* The treatment whether it is an address or not
EvenIfAddress(treatment, value) == value

\* a falsy value when the treatment is an address, else the treatment
UnlessAddress(treatment, value) ==
    IF includes(treatment, <<"@">>) THEN <<>> ELSE value

\* userRejectReason taking the user's reject treatment as it is, an address
\* or not
userRejectReasonOfAnyTreatment ==
    OrElse(userRejectTreatment, trim(DEFAULTS.REJECT_TREATMENT))

\* Lines 596-600
userRejectReason ==
    OrElse(UnlessAddress(userRejectTreatment, userRejectTreatment),
    OrElse(UnlessAddress(globalRejectTreatment, globalRejectTreatment),
    OrElse(UnlessAddress(Configured("REJECT_TREATMENT"),
                         trim(Configured("REJECT_TREATMENT"))),
           trim(DEFAULTS.REJECT_TREATMENT))))

\* fullRejectReason prepending the message's user, not its local part
fullRejectReasonWithUser ==
    prepend(userRejectReason, <<[regExp |-> TRUE, prepend |-> messageUser]>>)

\* Lines 603-606
fullRejectReason ==
    prepend(userRejectReason, <<[regExp |-> TRUE, prepend |-> messageLocalPart]>>)

\* DirectReject without the test of rejectForwardWasSuccessful
DirectRejectAlways ==
    /\ pc = "directReject"
    /\ pc' = "resolved"
    /\ setRejectCalls' = Append(setRejectCalls, fullRejectReason)
    /\ UNCHANGED <<inputs, kvReads, acceptForwardWasSuccessful,
                   rejectForwardWasSuccessful, multiDestination, customHeaders,
                   started, running, rd, thrown, forwardCalls, forwardOutcome>>

\* DirectReject calling setReject a second time
DirectRejectTwice ==
    /\ pc = "directReject"
    /\ pc' = "resolved"
    /\ IF ~rejectForwardWasSuccessful
       THEN setRejectCalls' =
              Append(Append(setRejectCalls, fullRejectReason), fullRejectReason)
       ELSE UNCHANGED setRejectCalls
    /\ UNCHANGED <<inputs, kvReads, acceptForwardWasSuccessful,
                   rejectForwardWasSuccessful, multiDestination, customHeaders,
                   started, running, rd, thrown, forwardCalls, forwardOutcome>>

\* Lines 595-613
DirectReject ==
    /\ pc = "directReject"
    /\ pc' = "resolved"
    /\ IF ~rejectForwardWasSuccessful
       THEN setRejectCalls' = Append(setRejectCalls, fullRejectReason)
       ELSE UNCHANGED setRejectCalls
    /\ UNCHANGED <<inputs, kvReads, acceptForwardWasSuccessful,
                   rejectForwardWasSuccessful, multiDestination, customHeaders,
                   started, running, rd, thrown, forwardCalls, forwardOutcome>>

Next ==
    \/ LoadConfiguration
    \/ AcceptForward
    \/ \E g \in DOMAIN rd : StartRedundantDestination(g)
    \/ \E g \in DOMAIN rd : Forward(g)
    \/ \E g \in DOMAIN rd : Settle(g)
    \/ AcceptForwardReturn
    \/ RejectForward
    \/ RejectForwardReturn
    \/ DirectReject

Spec == Init /\ [][Next]_vars

(***************************************************************************)
(* Fairness. Where email() stands before synchronous code (after the KV    *)
(* lookups of the configuration, which return, and before the accept       *)
(* forward, the reject forward and the direct reject) it runs that code:   *)
(* LoadConfiguration, AcceptForward, RejectForward and DirectReject have   *)
(* no guard but the position. A call of message.forward returns or         *)
(* throws, and the event loop runs the continuation that is ready.         *)
(***************************************************************************)
SynchronousPositions == {"email", "accept", "reject", "directReject"}

RunSynchronousCode ==
    /\ pc \in SynchronousPositions
    /\ pc' \in {"accept", "threw", "AcceptForwarding", "reject", "RejectForwarding",
                "directReject", "resolved"}

ForwardingStep ==
    \/ \E g \in DOMAIN rd : StartRedundantDestination(g)
    \/ \E g \in DOMAIN rd : Forward(g)
    \/ \E g \in DOMAIN rd : Settle(g)
    \/ AcceptForwardReturn
    \/ RejectForwardReturn

FairSpec == Spec /\ WF_pc(RunSynchronousCode) /\ WF_vars(ForwardingStep)

(***************************************************************************)
(* What the claims speak of, read from the record of the calls.            *)
(***************************************************************************)
ActionTypes == {"AcceptForwarding", "RejectForwarding"}

\* The redundant destinations forwardToMultiDestination was called with
ValidRedundantOf(actionType) ==
    IF actionType = "AcceptForwarding"
    THEN acceptMultiDestination.validRedundant
    ELSE rejectMultiDestination.validRedundant

\* forwardToMultiDestination has returned or thrown
IsOver(actionType) == forwardOutcome[actionType] \in {"true", "false", "threw"}

CallsOf(actionType, g) == forwardCalls[actionType][g]
GroupsOf(actionType) == 1..Len(forwardCalls[actionType])

IsFailure(result) == result \notin {Pending, Delivered}
\* Of the messages message.forward fails with, the transient error alone
\* is recoverable
IsRecoverableFailure(result) ==
    result = RECOVERABLE_FORWARD_IMPLEMENTATION_ERROR_MESSAGE_1
IsUnverifiedFailure(result) == result = UNVERIFIED_DESTINATION_ERROR_MESSAGE
IsUnrecoverableFailure(result) ==
    IsFailure(result) /\ ~IsRecoverableFailure(result)

DeliveredIn(actionType, g) ==
    \E k \in 1..Len(CallsOf(actionType, g)) :
        CallsOf(actionType, g)[k].result = Delivered
HadFailure(actionType, g, Kind(_)) ==
    \E k \in 1..Len(CallsOf(actionType, g)) : Kind(CallsOf(actionType, g)[k].result)
EveryFailure(actionType, g, Kind(_)) ==
    \A k \in 1..Len(CallsOf(actionType, g)) :
        IsFailure(CallsOf(actionType, g)[k].result)
            => Kind(CallsOf(actionType, g)[k].result)

(***************************************************************************)
(* C1. Within one redundant destination the addresses are attempted one    *)
(* at a time in their configured order: the calls made are the first       *)
(* addresses of the list in order, every call but the last has failed,     *)
(* and when the forward is over the calls stop at the first delivery or,   *)
(* with no delivery, cover the whole list. So the k-th address is          *)
(* attempted exactly when every earlier one was attempted and failed, and  *)
(* none is attempted after a delivery.                                     *)
(***************************************************************************)
C1_SequentialFailover ==
    \A actionType \in ActionTypes :
      LET validRedundant == ValidRedundantOf(actionType)
      IN \A g \in GroupsOf(actionType) :
        LET calls == CallsOf(actionType, g)
            redundantDestination == validRedundant[g]
        IN /\ Len(calls) <= Len(redundantDestination)
           /\ \A k \in 1..Len(calls) :
                /\ calls[k].destination = redundantDestination[k]
                /\ k < Len(calls) => IsFailure(calls[k].result)
           /\ IsOver(actionType) =>
                /\ Len(calls) >= 1
                /\ \/ calls[Len(calls)].result = Delivered
                   \/ /\ Len(calls) = Len(redundantDestination)
                      /\ IsFailure(calls[Len(calls)].result)

\* A forward is over in which a redundant destination of three addresses
\* delivered to its second address after the first failed, and never tried
\* its third
C1_Witness ==
    /\ IsOver("AcceptForwarding")
    /\ \E g \in GroupsOf("AcceptForwarding") :
          /\ Len(ValidRedundantOf("AcceptForwarding")[g]) = 3
          /\ Len(CallsOf("AcceptForwarding", g)) = 2
          /\ IsRecoverableFailure(CallsOf("AcceptForwarding", g)[1].result)
          /\ CallsOf("AcceptForwarding", g)[2].result = Delivered

(***************************************************************************)
(* C2. A forward that is over was successful exactly when there is at      *)
(* least one redundant destination and every one of them had a delivery;   *)
(* email() holds that value after the accept forward.                      *)
(***************************************************************************)
C2_SuccessIffEveryGroupDelivered ==
    /\ \A actionType \in ActionTypes :
          IsOver(actionType) =>
             (forwardOutcome[actionType] = "true"
                <=> /\ Len(forwardCalls[actionType]) > 0
                    /\ \A g \in GroupsOf(actionType) : DeliveredIn(actionType, g))
    /\ acceptForwardWasSuccessful <=> forwardOutcome["AcceptForwarding"] = "true"
    /\ rejectForwardWasSuccessful <=> forwardOutcome["RejectForwarding"] = "true"

\* A successful forward with a redundant destination that delivered after a
\* failed address
C2_Witness ==
    /\ forwardOutcome["AcceptForwarding"] = "true"
    /\ acceptForwardWasSuccessful
    /\ \E g \in GroupsOf("AcceptForwarding") :
          /\ HadFailure("AcceptForwarding", g, IsFailure)
          /\ DeliveredIn("AcceptForwarding", g)

\* The forward of an empty multi-destination has returned
C2_WitnessNoGroup ==
    /\ IsOver("AcceptForwarding")
    /\ Len(forwardCalls["AcceptForwarding"]) = 0

(***************************************************************************)
(* C3. As claimed: a forward that is over has thrown whenever a redundant  *)
(* destination delivered nothing and every failed attempt of every         *)
(* redundant destination was recoverable or unverified.                    *)
(***************************************************************************)
IsRecoverableOrUnverifiedFailure(result) ==
    IsRecoverableFailure(result) \/ IsUnverifiedFailure(result)

C3_ThrowsWhenRecoverableOrUnverified ==
    \A actionType \in ActionTypes :
        (/\ IsOver(actionType)
         /\ \E g \in GroupsOf(actionType) : ~DeliveredIn(actionType, g)
         /\ \A g \in GroupsOf(actionType) :
               EveryFailure(actionType, g, IsRecoverableOrUnverifiedFailure))
        => forwardOutcome[actionType] = "threw"

(***************************************************************************)
(* C3, amended. A forward that is over has thrown RecoverableForwardError  *)
(* whenever a redundant destination delivered nothing and every failed     *)
(* attempt of every redundant destination was recoverable, that is, its    *)
(* message matches the recoverable pattern.                                *)
(***************************************************************************)
C3_ThrowsWhenOnlyRecoverable ==
    \A actionType \in ActionTypes :
        (/\ IsOver(actionType)
         /\ \E g \in GroupsOf(actionType) : ~DeliveredIn(actionType, g)
         /\ \A g \in GroupsOf(actionType) :
               EveryFailure(actionType, g, IsRecoverableFailure))
        => /\ forwardOutcome[actionType] = "threw"
           /\ thrown = RECOVERABLE_FORWARD_INTERFACE_ERROR_MESSAGE

\* The accept forward threw: one redundant destination delivered at once,
\* another failed with a recoverable error
C3_Witness ==
    /\ forwardOutcome["AcceptForwarding"] = "threw"
    /\ \E g \in GroupsOf("AcceptForwarding") :
          /\ DeliveredIn("AcceptForwarding", g)
          /\ ~HadFailure("AcceptForwarding", g, IsFailure)
    /\ \E g \in GroupsOf("AcceptForwarding") : ~DeliveredIn("AcceptForwarding", g)
    /\ \A g \in GroupsOf("AcceptForwarding") :
          EveryFailure("AcceptForwarding", g, IsRecoverableFailure)

(***************************************************************************)
(* The flow after a forward that returned false: after the accept forward  *)
(* comes the reject forward or the direct reject, after the reject forward *)
(* the direct reject.                                                      *)
(***************************************************************************)
FallsThrough(actionType) ==
    /\ forwardOutcome[actionType] = "false"
    /\ IF actionType = "AcceptForwarding"
       THEN /\ ~acceptForwardWasSuccessful
            /\ pc \in {"reject", "RejectForwarding", "directReject", "resolved", "threw"}
            /\ pc = "threw" => forwardOutcome["RejectForwarding"] = "threw"
            /\ pc = "resolved" =>
                  \/ forwardOutcome["RejectForwarding"] = "true"
                  \/ Len(setRejectCalls) = 1
       ELSE /\ ~rejectForwardWasSuccessful
            /\ pc \in {"directReject", "resolved"}
            /\ pc = "resolved" => Len(setRejectCalls) = 1

C5_RejectsWithRecoverableForwardFailure ==
    \A actionType \in ActionTypes :
        (/\ IsOver(actionType)
         /\ \E g \in GroupsOf(actionType) : ~DeliveredIn(actionType, g)
         /\ \A g \in GroupsOf(actionType) :
               ~DeliveredIn(actionType, g)
                  => HadFailure(actionType, g, IsRecoverableFailure))
        => /\ pc = "threw"
           /\ thrown = RECOVERABLE_FORWARD_INTERFACE_ERROR_MESSAGE
           /\ forwardOutcome[actionType] = "threw"
           /\ setRejectCalls = <<>>

\* email() rejected: a redundant destination failed with a recoverable and
\* then an unrecoverable error, the other one delivered
C5_Witness ==
    /\ pc = "threw"
    /\ \E g \in GroupsOf("AcceptForwarding") :
          /\ Len(CallsOf("AcceptForwarding", g)) = 2
          /\ IsRecoverableFailure(CallsOf("AcceptForwarding", g)[1].result)
          /\ IsUnrecoverableFailure(CallsOf("AcceptForwarding", g)[2].result)
    /\ \E g \in GroupsOf("AcceptForwarding") : DeliveredIn("AcceptForwarding", g)

\* email() rejected: a redundant destination delivered after an
\* unrecoverable error, the other one failed with a recoverable error
C5_WitnessDeliveredAfterUnrecoverable ==
    /\ pc = "threw"
    /\ \E g \in GroupsOf("AcceptForwarding") :
          /\ HadFailure("AcceptForwarding", g, IsUnrecoverableFailure)
          /\ DeliveredIn("AcceptForwarding", g)
    /\ \E g \in GroupsOf("AcceptForwarding") :
          /\ ~DeliveredIn("AcceptForwarding", g)
          /\ EveryFailure("AcceptForwarding", g, IsRecoverableFailure)

PartialDeliveryWithoutRecoverableError ==
    /\ IsOver("AcceptForwarding")
    /\ \E g \in GroupsOf("AcceptForwarding") : DeliveredIn("AcceptForwarding", g)
    /\ \E g \in GroupsOf("AcceptForwarding") :
          /\ ~DeliveredIn("AcceptForwarding", g)
          /\ ~HadFailure("AcceptForwarding", g, IsRecoverableFailure)

C9_RecoverableForwardErrorPropagates ==
    /\ forwardOutcome["AcceptForwarding"] = "threw"
       => /\ pc = "threw"
          /\ thrown = RECOVERABLE_FORWARD_INTERFACE_ERROR_MESSAGE
          /\ ~acceptForwardWasSuccessful
          /\ forwardOutcome["RejectForwarding"] = "none"
          /\ forwardCalls["RejectForwarding"] = <<>>
          /\ setRejectCalls = <<>>
    /\ forwardOutcome["RejectForwarding"] = "threw"
       => /\ pc = "threw"
          /\ thrown = RECOVERABLE_FORWARD_INTERFACE_ERROR_MESSAGE
          /\ ~rejectForwardWasSuccessful
          /\ setRejectCalls = <<>>

\* The accept forward threw although a valid reject destination is configured
C9_Witness ==
    /\ forwardOutcome["AcceptForwarding"] = "threw"
    /\ pc = "threw"
    /\ Len(rejectMultiDestination.validRedundant) > 0

\* The reject forward threw after the accept forward had returned false
C9_WitnessRejectForward ==
    /\ forwardOutcome["AcceptForwarding"] = "false"
    /\ forwardOutcome["RejectForwarding"] = "threw"
    /\ pc = "threw"

(***************************************************************************)
(* C10. setReject is called only after the accept forward (where           *)
(* attempted) and the reject forward (where a reject destination is        *)
(* configured) have both returned without success and without throwing;    *)
(* it is called once, as the last step: nothing is forwarded and nothing   *)
(* rejected after it.                                                      *)
(***************************************************************************)
DirectRejectIsLast ==
    setRejectCalls # <<>>
    => /\ pc = "resolved"
       /\ Len(setRejectCalls) = 1
       /\ thrown = NoError
       /\ ~acceptForwardWasSuccessful
       /\ ~rejectForwardWasSuccessful
       /\ forwardOutcome["AcceptForwarding"] \in {"none", "false"}
       /\ forwardOutcome["RejectForwarding"] \in {"none", "false"}
       /\ forwardOutcome["AcceptForwarding"] = "none"
          <=> ~(messageUserIsAllowed /\ messageSubaddressIsAllowed)
       /\ forwardOutcome["RejectForwarding"] = "none"
          <=> Len(rejectMultiDestination.validRedundant) = 0
       /\ \A actionType \in ActionTypes : \A g \in GroupsOf(actionType) :
             \A k \in 1..Len(CallsOf(actionType, g)) :
                CallsOf(actionType, g)[k].result # Pending

C10_DirectRejectIsLastStep ==
    /\ []DirectRejectIsLast
    /\ [][setRejectCalls = <<>> /\ setRejectCalls' # <<>>
            => /\ pc = "directReject"
               /\ forwardCalls' = forwardCalls
               /\ forwardOutcome' = forwardOutcome]_vars
    /\ [][setRejectCalls # <<>>
            => /\ setRejectCalls' = setRejectCalls
               /\ forwardCalls' = forwardCalls]_vars

\* setReject was called after both the accept forward and the reject
\* forward made attempts and returned false
C10_Witness ==
    /\ Len(setRejectCalls) = 1
    /\ forwardOutcome["AcceptForwarding"] = "false"
    /\ forwardOutcome["RejectForwarding"] = "false"
    /\ \E g \in GroupsOf("RejectForwarding") :
          HadFailure("RejectForwarding", g, IsUnrecoverableFailure)

(***************************************************************************)
(* C11. Every invocation ends in one of three outcomes, and in no two of   *)
(* them: it resolved after a forward succeeded, setReject never called;    *)
(* it resolved after setReject was called exactly once, no forward having  *)
(* succeeded; or it rejected with an error, setReject never called.        *)
(* setReject is never called more than once, and before email() ends      *)
(* nothing is thrown and setReject is not called.                          *)
(***************************************************************************)
SomeForwardSucceeded ==
    \E actionType \in ActionTypes : forwardOutcome[actionType] = "true"

C11_ExactlyOneOutcome ==
    /\ Len(setRejectCalls) <= 1
    /\ pc = "resolved"
       => /\ thrown = NoError
          /\ \/ SomeForwardSucceeded /\ setRejectCalls = <<>>
             \/ ~SomeForwardSucceeded /\ Len(setRejectCalls) = 1
    /\ pc = "threw"
       => /\ thrown # NoError
          /\ ~SomeForwardSucceeded
          /\ setRejectCalls = <<>>
    /\ pc \in {"email", "accept", "AcceptForwarding", "reject", "RejectForwarding",
               "directReject", "resolved", "threw"}
    /\ pc \notin {"resolved", "threw"}
       => /\ thrown = NoError
          /\ setRejectCalls = <<>>

\* email() resolved after the reject forward succeeded; the accept forward
\* had failed
C11_Witness ==
    /\ pc = "resolved"
    /\ forwardOutcome["AcceptForwarding"] = "false"
    /\ forwardOutcome["RejectForwarding"] = "true"
    /\ setRejectCalls = <<>>

\* email() resolved after one direct reject
C11_WitnessDirectReject ==
    /\ pc = "resolved"
    /\ ~SomeForwardSucceeded
    /\ Len(setRejectCalls) = 1

\* email() threw the invalid custom header before anything was forwarded
C11_WitnessInvalidCustomHeader ==
    /\ pc = "threw"
    /\ thrown = <<"Invalid custom header">>
    /\ forwardOutcome["AcceptForwarding"] = "none"

(***************************************************************************)
(* C12. Every attempt of the accept forward carries the custom header      *)
(* with the pass value, every attempt of the reject forward carries it     *)
(* with the fail value, and once an attempt with the fail value was made   *)
(* no attempt with the pass value is made any more.                        *)
(***************************************************************************)
\* The attempts made so far that carry the custom header with this value
AttemptsWith(value) ==
    {<<actionType, g, k>> \in ActionTypes \X (1..MaxAddresses + 1)
                                          \X (1..MaxAddresses + 1) :
        /\ g \in GroupsOf(actionType)
        /\ k \in 1..Len(CallsOf(actionType, g))
        /\ CallsOf(actionType, g)[k].headers = <<customHeader, value>>}

AttemptsOf(actionType) ==
    {<<g, k>> \in (1..MaxAddresses + 1) \X (1..MaxAddresses + 1) :
        /\ g \in GroupsOf(actionType)
        /\ k \in 1..Len(CallsOf(actionType, g))}

PassAttempts == AttemptsWith(customHeaderPass)
FailAttempts == AttemptsWith(customHeaderFail)

HeadersByPhase ==
    /\ \A attempt \in AttemptsOf("AcceptForwarding") :
          <<"AcceptForwarding", attempt[1], attempt[2]>> \in PassAttempts
    /\ \A attempt \in AttemptsOf("RejectForwarding") :
          <<"RejectForwarding", attempt[1], attempt[2]>> \in FailAttempts

C12_PassHeaderThenFailHeader ==
    /\ []HeadersByPhase
    /\ [][FailAttempts # {} => PassAttempts' = PassAttempts]_vars

\* An attempt with the pass value failed and an attempt with the fail value
\* followed; the two values differ and were trimmed
C12_Witness ==
    /\ PassAttempts # {}
    /\ FailAttempts # {}
    /\ PassAttempts \cap FailAttempts = {}
    /\ customHeaderPass = <<"o", "k">>
    /\ customHeaderFail = <<"k", "o">>
    /\ customHeader = <<"X", "-", "H">>

(***************************************************************************)
(* C13. If the message's user or its subaddress is not admitted, the       *)
(* accept forward is never called, so that no attempt of the accept phase  *)
(* is made: the flow goes straight to the reject treatment, the reject     *)
(* forward or the direct reject.                                           *)
(***************************************************************************)
C13_NotAdmittedSkipsAcceptForward ==
    ~(messageUserIsAllowed /\ messageSubaddressIsAllowed)
    => /\ forwardOutcome["AcceptForwarding"] = "none"
       /\ forwardCalls["AcceptForwarding"] = <<>>
       /\ ~acceptForwardWasSuccessful
       /\ pc \notin {"AcceptForwarding"}
       /\ pc = "resolved"
          => \/ forwardOutcome["RejectForwarding"] = "true"
             \/ Len(setRejectCalls) = 1
       /\ pc = "threw"
          => \/ forwardOutcome["RejectForwarding"] = "threw"
             \/ thrown = <<"Invalid custom header">>

\* A message with a subaddress that is not admitted although its user is,
\* with a valid destination configured, was rejected directly
C13_Witness ==
    /\ messageUserIsAllowed
    /\ ~messageSubaddressIsAllowed
    /\ Len(acceptMultiDestination.validRedundant) > 0
    /\ pc = "resolved"
    /\ Len(setRejectCalls) = 1

\* A message whose user is not admitted was forwarded to the reject
\* destination
C13_WitnessRejectForward ==
    /\ ~messageUserIsAllowed
    /\ Len(acceptMultiDestination.validRedundant) > 0
    /\ pc = "resolved"
    /\ forwardOutcome["RejectForwarding"] = "true"

(***************************************************************************)
(* The entries of a list text: the pieces between two neighbouring         *)
(* separators or ends of the text, trimmed.                                *)
(***************************************************************************)
EntriesOf(listText) ==
    {trim(SubSeq(listText, i, j)) :
        <<i, j>> \in {<<i, j>> \in (1..Len(listText) + 1) \X (0..Len(listText)) :
            /\ i <= j + 1
            /\ i = 1 \/ <<listText[i - 1]>> = FORMAT_REDUNDANT_ADDRESS_SEPARATOR
            /\ j = Len(listText) \/ <<listText[j + 1]>> = FORMAT_REDUNDANT_ADDRESS_SEPARATOR
            /\ \A k \in i..j : <<listText[k]>> # FORMAT_REDUNDANT_ADDRESS_SEPARATOR}}

\* An entry of the message's user was found in the KV store
UserEntryFound ==
    /\ useStoredUserConfiguration
    /\ messageUser \in DOMAIN MAP

(***************************************************************************)
(* C14. The message's user is admitted exactly when an entry of the user   *)
(* was found in the KV store, or the global allowed users are the          *)
(* wildcard, or the user is an entry of the allowed users list (decided    *)
(* when the configuration is loaded); the accept forward is called only    *)
(* for an admitted user, and for every admitted user with an admitted      *)
(* subaddress.                                                             *)
(***************************************************************************)
C14_UserAdmission ==
    /\ pc = "accept"
       => (messageUserIsAllowed
             <=> \/ UserEntryFound
                 \/ globalUsers = <<"*">>
                 \/ messageUser \in EntriesOf(globalUsers))
    /\ forwardOutcome["AcceptForwarding"] # "none" => messageUserIsAllowed
    /\ pc \in {"reject", "resolved"} /\ forwardOutcome["AcceptForwarding"] = "none"
       => ~(messageUserIsAllowed /\ messageSubaddressIsAllowed)

\* A user admitted by a stored entry alone, an empty one: the user is not
\* among the allowed users, and the accept forward was called
C14_Witness ==
    /\ UserEntryFound
    /\ MAP[messageUser] = <<>>
    /\ globalUsers = <<"w">>
    /\ forwardOutcome["AcceptForwarding"] # "none"

\* A user admitted as the second entry of the allowed users list
C14_WitnessListed ==
    /\ ~UserEntryFound
    /\ globalUsers = <<"w", ",", " ", "u">>
    /\ messageUser = <<"u">>
    /\ forwardOutcome["AcceptForwarding"] # "none"

\* A user in the store, not admitted because stored user configuration is
\* not loaded
C14_WitnessNotAdmitted ==
    /\ messageUser \in DOMAIN MAP
    /\ ~messageUserIsAllowed
    /\ pc = "resolved"

(***************************************************************************)
(* The resolved subaddress policy without its leading local-part           *)
(* separator, if it has one.                                               *)
(***************************************************************************)
PolicyWithoutLeadingSeparator ==
    IF userSubaddresses # <<>> /\ <<Head(userSubaddresses)>> = FORMAT_LOCAL_PART_SEPARATOR
    THEN Tail(userSubaddresses)
    ELSE userSubaddresses

(***************************************************************************)
(* C15. A message without subaddress is admitted exactly when the          *)
(* resolved subaddress policy does not start with the local-part           *)
(* separator; a message with a subaddress exactly when the policy, a       *)
(* leading separator removed, is the wildcard or lists the subaddress. An  *)
(* empty policy admits only messages without subaddress, the separator     *)
(* alone admits nothing (decided when the configuration is loaded). The    *)
(* accept forward is called only for an admitted subaddress.               *)
(***************************************************************************)
C15_SubaddressAdmission ==
    /\ forwardOutcome["AcceptForwarding"] # "none" => messageSubaddressIsAllowed
    /\ pc = "accept"
       => /\ messageSubaddress = <<>>
             => (messageSubaddressIsAllowed
                   <=> ~(/\ userSubaddresses # <<>>
                         /\ <<Head(userSubaddresses)>> = FORMAT_LOCAL_PART_SEPARATOR))
          /\ messageSubaddress # <<>>
             => (messageSubaddressIsAllowed
                   <=> \/ PolicyWithoutLeadingSeparator = <<"*">>
                       \/ messageSubaddress \in EntriesOf(PolicyWithoutLeadingSeparator))
          /\ userSubaddresses = <<>>
             => (messageSubaddressIsAllowed <=> messageSubaddress = <<>>)
          /\ userSubaddresses = FORMAT_LOCAL_PART_SEPARATOR
             => ~messageSubaddressIsAllowed

\* The separator alone as the policy: a message with a subaddress, its user
\* admitted, was not forwarded
C15_Witness ==
    /\ userSubaddresses = FORMAT_LOCAL_PART_SEPARATOR
    /\ messageSubaddress = <<"t">>
    /\ messageUserIsAllowed
    /\ pc = "resolved"
    /\ forwardOutcome["AcceptForwarding"] = "none"

\* A policy that requires a subaddress and lists it: the message with that
\* subaddress was forwarded
C15_WitnessRequiredAndListed ==
    /\ userSubaddresses = <<"+", "t">>
    /\ messageSubaddress = <<"t">>
    /\ forwardOutcome["AcceptForwarding"] # "none"

\* An empty policy: the message without subaddress was forwarded
C15_WitnessEmptyPolicy ==
    /\ userSubaddresses = <<>>
    /\ messageSubaddress = <<>>
    /\ forwardOutcome["AcceptForwarding"] # "none"

\* A list as the policy: the message with its second entry was forwarded
C15_WitnessListed ==
    /\ userSubaddresses = <<"s", ",", " ", "t">>
    /\ messageSubaddress = <<"t">>
    /\ forwardOutcome["AcceptForwarding"] # "none"

(***************************************************************************)
(* C16. When the user and the subaddress are admitted but the destination  *)
(* holds no valid address, the accept forward makes no attempt and throws  *)
(* nothing: it returns false, and the flow goes on to the reject phase.    *)
(***************************************************************************)
AdmittedWithoutValidDestination ==
    /\ messageUserIsAllowed
    /\ messageSubaddressIsAllowed
    /\ Len(acceptMultiDestination.validRedundant) = 0

C16_NoValidDestinationCascades ==
    (AdmittedWithoutValidDestination /\ pc \notin {"email", "accept"})
    => /\ forwardCalls["AcceptForwarding"] = <<>>
       /\ PassAttempts = {}
       /\ forwardOutcome["AcceptForwarding"] \in {"called", "false"}
       /\ ~acceptForwardWasSuccessful
       /\ pc = "AcceptForwarding" <=> forwardOutcome["AcceptForwarding"] = "called"
       /\ pc = "threw" => forwardOutcome["RejectForwarding"] = "threw"
       /\ pc = "resolved"
          => \/ forwardOutcome["RejectForwarding"] = "true"
             \/ Len(setRejectCalls) = 1

\* An admitted message whose destination holds an invalid address only: the
\* accept forward returned false and the reject forward was called
C16_Witness ==
    /\ AdmittedWithoutValidDestination
    /\ userDestination = <<"b", "a", "d">>
    /\ forwardOutcome["AcceptForwarding"] = "false"
    /\ forwardOutcome["RejectForwarding"] # "none"

\* An admitted message with an empty destination was rejected directly
C16_WitnessEmptyDestination ==
    /\ AdmittedWithoutValidDestination
    /\ userDestination = <<>>
    /\ forwardOutcome["AcceptForwarding"] = "false"
    /\ pc = "resolved"
    /\ Len(setRejectCalls) = 1

(***************************************************************************)
(* Keys of the KV store whose stored value is loaded and is the empty      *)
(* string.                                                                 *)
(***************************************************************************)
StoredEmpty(shouldLoad, key) ==
    /\ shouldLoad
    /\ key \in DOMAIN MAP
    /\ MAP[key] = <<>>

EmptyStoredGlobalValuesAreKept ==
    /\ StoredEmpty(useStoredAddressGlobalConfiguration, KeyDESTINATION)
       => globalDestination = <<>>
    /\ StoredEmpty(useStoredAddressGlobalConfiguration, KeyREJECT_TREATMENT)
       => globalRejectTreatment = <<>>
    /\ StoredEmpty(useStoredAddressGlobalConfiguration, KeySUBADDRESSES)
       => globalSubaddresses = <<>>
    /\ StoredEmpty(useStoredAddressGlobalConfiguration, KeyUSERS)
       => globalUsers = <<>>

EmptyStoredUserSubaddressesAreKept ==
    StoredEmpty(useStoredUserConfiguration, messageUser \o FORMAT_LOCAL_PART_SEPARATOR)
    => /\ userSubaddresses = <<>>
       /\ messageSubaddressIsAllowed <=> messageSubaddress = <<>>

(***************************************************************************)
(* C17. As claimed: a value stored as the empty string is never replaced   *)
(* by a lower-precedence value, for the global keys, the per-user          *)
(* destination and the per-user subaddress policy alike.                   *)
(***************************************************************************)
C17_EmptyStoredValueIsNeverReplaced ==
    pc = "accept"
    => /\ EmptyStoredGlobalValuesAreKept
       /\ EmptyStoredUserSubaddressesAreKept
       /\ StoredEmpty(useStoredUserConfiguration, messageUser)
          => userDestination = <<>>

(***************************************************************************)
(* C17, amended. A value stored as the empty string under a global key or  *)
(* under the key of the per-user subaddress policy is never replaced by a  *)
(* lower-precedence value: there only a missing key falls back to the      *)
(* global or environment value. An empty per-user destination (and an      *)
(* empty per-user reject treatment) is replaced by the global destination  *)
(* (and the global reject treatment), and the accept forward goes to the   *)
(* global destination.                                                     *)
(***************************************************************************)
C17_EmptyStoredValueIsKeptButForUserDestination ==
    /\ pc = "accept"
       => /\ EmptyStoredGlobalValuesAreKept
          /\ EmptyStoredUserSubaddressesAreKept
          /\ StoredEmpty(useStoredUserConfiguration, messageUser)
             => /\ userDestination = globalDestination
                /\ userRejectTreatment = globalRejectTreatment
    /\ (/\ StoredEmpty(useStoredAddressGlobalConfiguration, KeyDESTINATION)
        /\ ~UserEntryFound)
       => PassAttempts = {}
    /\ StoredEmpty(useStoredUserConfiguration, messageUser)
       => \A attempt \in AttemptsOf("AcceptForwarding") :
             includes(globalDestination,
                      CallsOf("AcceptForwarding", attempt[1])[attempt[2]].destination)

\* A destination stored as the empty string under the global key is kept
\* although the environment gives a destination: the admitted message was
\* rejected without any attempt
C17_Witness ==
    /\ StoredEmpty(useStoredAddressGlobalConfiguration, KeyDESTINATION)
    /\ Configured("DESTINATION") = <<"a", "1", "@", "x">>
    /\ messageUserIsAllowed
    /\ messageSubaddressIsAllowed
    /\ forwardOutcome["AcceptForwarding"] = "false"
    /\ forwardCalls["AcceptForwarding"] = <<>>
    /\ pc = "resolved"

\* A per-user subaddress policy stored as the empty string is kept although
\* the global policy admits the message's subaddress
C17_WitnessUserSubaddresses ==
    /\ StoredEmpty(useStoredUserConfiguration, messageUser \o FORMAT_LOCAL_PART_SEPARATOR)
    /\ globalSubaddresses = <<"+", "t">>
    /\ messageSubaddress = <<"t">>
    /\ pc = "resolved"
    /\ forwardOutcome["AcceptForwarding"] = "none"

\* A per-user entry stored as the empty string: the message was delivered
\* to the global destination
C17_WitnessUserDestination ==
    /\ StoredEmpty(useStoredUserConfiguration, messageUser)
    /\ globalDestination = <<"a", "1", "@", "x">>
    /\ \E g \in GroupsOf("AcceptForwarding") : DeliveredIn("AcceptForwarding", g)

(***************************************************************************)
(* The destination segment of a per-user entry: its text before the first  *)
(* reject separator.                                                       *)
(***************************************************************************)
DestinationSegment(entry) ==
    IF \E i \in 1..Len(entry) : <<entry[i]>> = FORMAT_REJECT_SEPARATOR
    THEN LET first == CHOOSE i \in 1..Len(entry) :
                         /\ <<entry[i]>> = FORMAT_REJECT_SEPARATOR
                         /\ \A k \in 1..(i - 1) : <<entry[k]>> # FORMAT_REJECT_SEPARATOR
         IN SubSeq(entry, 1, first - 1)
    ELSE entry

\* The user's entry was found and its destination segment is blank
UserEntryWithBlankDestination ==
    /\ UserEntryFound
    /\ \A i \in 1..Len(DestinationSegment(MAP[messageUser])) :
          DestinationSegment(MAP[messageUser])[i] \in Whitespace

(***************************************************************************)
(* C18. A per-user entry whose destination segment is empty or blank,      *)
(* with or without a reject treatment after the reject separator, still    *)
(* admits the user, and the message is forwarded to the global             *)
(* destination.                                                            *)
(***************************************************************************)
C18_BlankUserDestinationUsesGlobal ==
    UserEntryWithBlankDestination
    => /\ pc = "accept"
          => /\ messageUserIsAllowed
             /\ userDestination = globalDestination
       /\ forwardOutcome["AcceptForwarding"] # "none"
          => Len(forwardCalls["AcceptForwarding"])
               = Len(validateMultiDestination(globalDestination).validRedundant)
       /\ \A attempt \in AttemptsOf("AcceptForwarding") :
             CallsOf("AcceptForwarding", attempt[1])[attempt[2]].destination
               = validateMultiDestination(globalDestination)
                    .validRedundant[attempt[1]][attempt[2]]
       /\ messageSubaddressIsAllowed /\ pc \in {"reject", "resolved"}
          => forwardOutcome["AcceptForwarding"] # "none"

\* A user who is not among the allowed users has an entry with a blank
\* destination and a reject destination: the message was delivered to the
\* global destination
C18_Witness ==
    /\ UserEntryFound
    /\ MAP[messageUser] = <<" ", ";", "r", "1", "@", "x">>
    /\ globalUsers = <<"w">>
    /\ globalDestination = <<"a", "1", "@", "x">>
    /\ pc = "resolved"
    /\ \E g \in GroupsOf("AcceptForwarding") :
          /\ DeliveredIn("AcceptForwarding", g)
          /\ CallsOf("AcceptForwarding", g)[1].destination = <<"a", "1", "@", "x">>

\* The same with an entry that is a blank alone
C18_WitnessBlankEntry ==
    /\ UserEntryFound
    /\ MAP[messageUser] = <<" ">>
    /\ globalUsers = <<"w">>
    /\ \E g \in GroupsOf("AcceptForwarding") : DeliveredIn("AcceptForwarding", g)

(***************************************************************************)
(* The value that the precedence rule gives a global setting: the stored   *)
(* one when stored address configuration is loaded and the key is          *)
(* present, otherwise the environment's, otherwise the built-in default.   *)
(***************************************************************************)
ByPrecedence(storedKey, name) ==
    IF booleanFromString(Configured("USE_STORED_ADDRESS_CONFIGURATION"))
       /\ storedKey \in DOMAIN MAP
    THEN MAP[storedKey]
    ELSE IF environment[name] # Undefined
         THEN environment[name]
         ELSE DEFAULTS[name]

\* The reject treatment segment of a per-user entry: its text after the
\* first reject separator, up to the next one
RejectTreatmentSegment(entry) ==
    LET rest == SubSeq(entry, Len(DestinationSegment(entry)) + 2, Len(entry))
    IN DestinationSegment(rest)

IsBlank(str) == \A i \in 1..Len(str) : str[i] \in Whitespace

\* The destination that the precedence rule gives the message's user
DestinationByPrecedence ==
    IF UserEntryFound /\ ~IsBlank(DestinationSegment(MAP[messageUser]))
    THEN trim(DestinationSegment(MAP[messageUser]))
    ELSE trim(ByPrecedence(<<"@", "DESTINATION">>, "DESTINATION"))

(***************************************************************************)
(* C19. For destination, reject treatment, subaddresses and users the      *)
(* effective global value is the one stored under '@DESTINATION',          *)
(* '@REJECT_TREATMENT', '@SUBADDRESSES' or '@USERS' when stored address    *)
(* configuration is loaded and the key is present, otherwise the           *)
(* environment's, otherwise the built-in default (each trimmed, the last   *)
(* two in lower case); what a per-user entry gives takes precedence over   *)
(* the global value, and the accept forward goes to the destination so     *)
(* resolved.                                                               *)
(***************************************************************************)
C19_ConfigurationPrecedence ==
    /\ pc = "accept"
       => /\ globalDestination = trim(ByPrecedence(<<"@", "DESTINATION">>, "DESTINATION"))
          /\ globalRejectTreatment
               = trim(ByPrecedence(<<"@", "REJECT_TREATMENT">>, "REJECT_TREATMENT"))
          /\ globalSubaddresses
               = toLowerCase(trim(ByPrecedence(<<"@", "SUBADDRESSES">>, "SUBADDRESSES")))
          /\ globalUsers = toLowerCase(trim(ByPrecedence(<<"@", "USERS">>, "USERS")))
          /\ userDestination = DestinationByPrecedence
          /\ (/\ UserEntryFound
              /\ ~IsBlank(RejectTreatmentSegment(MAP[messageUser])))
             => userRejectTreatment = trim(RejectTreatmentSegment(MAP[messageUser]))
          /\ (/\ useStoredUserConfiguration
              /\ (messageUser \o FORMAT_LOCAL_PART_SEPARATOR) \in DOMAIN MAP)
             => userSubaddresses
                  = toLowerCase(trim(MAP[messageUser \o FORMAT_LOCAL_PART_SEPARATOR]))
    /\ forwardOutcome["AcceptForwarding"] # "none"
       => Len(forwardCalls["AcceptForwarding"])
            = Len(validateMultiDestination(DestinationByPrecedence).validRedundant)
    /\ \A attempt \in AttemptsOf("AcceptForwarding") :
          CallsOf("AcceptForwarding", attempt[1])[attempt[2]].destination
            = validateMultiDestination(DestinationByPrecedence)
                 .validRedundant[attempt[1]][attempt[2]]

\* The stored global destination is used although the environment gives
\* another one: the message was delivered to it
C19_Witness ==
    /\ useStoredAddressGlobalConfiguration
    /\ KeyDESTINATION \in DOMAIN MAP
    /\ MAP[KeyDESTINATION] = <<"g", "1", "@", "x">>
    /\ environment["DESTINATION"] = <<"a", "1", "@", "x">>
    /\ ~UserEntryFound
    /\ \E g \in GroupsOf("AcceptForwarding") :
          /\ DeliveredIn("AcceptForwarding", g)
          /\ CallsOf("AcceptForwarding", g)[1].destination = <<"g", "1", "@", "x">>

\* The user's entry is used although a global destination is stored and
\* the environment gives one
C19_WitnessUserEntry ==
    /\ UserEntryFound
    /\ useStoredAddressGlobalConfiguration
    /\ KeyDESTINATION \in DOMAIN MAP
    /\ environment["DESTINATION"] # Undefined
    /\ \E g \in GroupsOf("AcceptForwarding") :
          /\ DeliveredIn("AcceptForwarding", g)
          /\ CallsOf("AcceptForwarding", g)[1].destination = <<"k", "1", "@", "x">>

\* Nothing stored and nothing in the environment: the built-in defaults
\* admit no user, and the message was rejected with the default reason
C19_WitnessDefaults ==
    /\ environment["USERS"] = Undefined
    /\ environment["REJECT_TREATMENT"] = Undefined
    /\ KeyUSERS \notin DOMAIN MAP
    /\ KeyREJECT_TREATMENT \notin DOMAIN MAP
    /\ ~UserEntryFound
    /\ pc = "resolved"
    /\ setRejectCalls = <<messageLocalPart \o trim(DEFAULTS["REJECT_TREATMENT"])>>

(***************************************************************************)
(* The environment sets this flag to false.                                *)
(***************************************************************************)
FlagIsFalse(name) == environment[name] = <<"f", "a", "l", "s", "e">>

\* A global setting as the environment and the built-in defaults alone give it
WithoutStore(name) ==
    IF environment[name] # Undefined THEN environment[name] ELSE DEFAULTS[name]

StoredGlobalsHaveNoEffect ==
    /\ globalDestination = trim(WithoutStore("DESTINATION"))
    /\ globalRejectTreatment = trim(WithoutStore("REJECT_TREATMENT"))
    /\ globalSubaddresses = toLowerCase(trim(WithoutStore("SUBADDRESSES")))
    /\ globalUsers = toLowerCase(trim(WithoutStore("USERS")))

StoredUserHasNoEffect ==
    /\ messageUserIsAllowed
          <=> \/ globalUsers = <<"*">>
              \/ messageUser \in EntriesOf(globalUsers)
    /\ userDestination = globalDestination
    /\ userRejectTreatment = globalRejectTreatment
    /\ userSubaddresses = globalSubaddresses

(***************************************************************************)
(* C20. Loading from the KV store is gated per domain, independently:      *)
(* when the stored address flag is false no '@' key is ever read and the   *)
(* stored global values have no effect, whatever the stored user flag is;  *)
(* when the stored user flag is false no key of the user is ever read and  *)
(* a user in the store is neither admitted by that nor given another       *)
(* destination, reject treatment or subaddress policy, whatever the        *)
(* stored address flag is. A flag that is not false lets its own keys be   *)
(* read.                                                                   *)
(***************************************************************************)
C20_StoredConfigurationGates ==
    /\ FlagIsFalse("USE_STORED_ADDRESS_CONFIGURATION")
       => /\ kvReads \cap GlobalKeys = {}
          /\ pc = "accept" => StoredGlobalsHaveNoEffect
    /\ FlagIsFalse("USE_STORED_USER_CONFIGURATION")
       => /\ kvReads \cap UserKeys = {}
          /\ pc = "accept" => StoredUserHasNoEffect
    /\ (~FlagIsFalse("USE_STORED_ADDRESS_CONFIGURATION") /\ pc # "email")
       => GlobalKeys \subseteq kvReads
    /\ (~FlagIsFalse("USE_STORED_USER_CONFIGURATION") /\ pc \notin {"email", "threw"})
       => UserKeys \subseteq kvReads
    /\ kvReads \subseteq GlobalKeys \cup UserKeys

\* The stored address flag is false, the stored user flag is not, and the
\* store holds all keys: only the user's keys were read, and the message
\* was delivered to the destination of the user's entry
C20_Witness ==
    /\ FlagIsFalse("USE_STORED_ADDRESS_CONFIGURATION")
    /\ ~FlagIsFalse("USE_STORED_USER_CONFIGURATION")
    /\ GlobalKeys \cup UserKeys \subseteq DOMAIN MAP
    /\ kvReads = UserKeys
    /\ \E g \in GroupsOf("AcceptForwarding") :
          /\ DeliveredIn("AcceptForwarding", g)
          /\ CallsOf("AcceptForwarding", g)[1].destination = <<"k", "1", "@", "x">>

\* The stored user flag is false, the stored address flag is not, and the
\* store holds all keys: only the global keys were read, and the message
\* was delivered to the stored global destination
C20_WitnessUserGate ==
    /\ ~FlagIsFalse("USE_STORED_ADDRESS_CONFIGURATION")
    /\ FlagIsFalse("USE_STORED_USER_CONFIGURATION")
    /\ GlobalKeys \cup UserKeys \subseteq DOMAIN MAP
    /\ kvReads = GlobalKeys
    /\ \E g \in GroupsOf("AcceptForwarding") :
          /\ DeliveredIn("AcceptForwarding", g)
          /\ CallsOf("AcceptForwarding", g)[1].destination = <<"g", "1", "@", "x">>

\* Both flags are false and the store holds all keys: nothing was read, and
\* the user, who is in the store, was rejected
C20_WitnessBothGates ==
    /\ FlagIsFalse("USE_STORED_ADDRESS_CONFIGURATION")
    /\ FlagIsFalse("USE_STORED_USER_CONFIGURATION")
    /\ GlobalKeys \cup UserKeys \subseteq DOMAIN MAP
    /\ kvReads = {}
    /\ pc = "resolved"
    /\ forwardOutcome["AcceptForwarding"] = "none"
    /\ Len(setRejectCalls) = 1

(***************************************************************************)
(* The addresses of a list of redundant destinations, with their places.   *)
(***************************************************************************)
PlacesOf(validRedundant) ==
    {<<g, k>> \in (1..Len(validRedundant)) \X (1..(2 * MaxAddresses)) :
        k <= Len(validRedundant[g])}

NoEmptyGroupNoDuplicate(validRedundant) ==
    /\ \A g \in 1..Len(validRedundant) : Len(validRedundant[g]) > 0
    /\ \A p, q \in PlacesOf(validRedundant) :
          validRedundant[p[1]][p[2]] = validRedundant[q[1]][q[2]] => p = q
    /\ \A g \in 1..Len(validRedundant) : Len(validRedundant[g]) <= 2 * MaxAddresses

(***************************************************************************)
(* C21. For every destination text and every user the validated           *)
(* redundant destinations hold no empty redundant destination and no       *)
(* address twice, anywhere; this is so for the destination and for the     *)
(* reject destinations, and for what the forward is called with.           *)
(***************************************************************************)
C21_ValidatedDestinationsAreDistinct ==
    /\ pc = "accept"
       => /\ NoEmptyGroupNoDuplicate(acceptMultiDestination.validRedundant)
          /\ NoEmptyGroupNoDuplicate(rejectMultiDestination.validRedundant)
    /\ NoEmptyGroupNoDuplicate(multiDestination)

\* The forward was called with a1@x and b1@x in the first and c1@x alone in
\* the second redundant destination, for a destination text that repeats
\* b1@x and a1@x in its second
C21_Witness ==
    /\ userDestination = <<"a", "1", "@", "x", ":", "b", "1", "@", "x", ",",
                           "b", "1", "@", "x", ":", "a", "1", "@", "x", ":",
                           "c", "1", "@", "x">>
    /\ pc = "AcceptForwarding"
    /\ multiDestination = <<<<<<"a", "1", "@", "x">>, <<"b", "1", "@", "x">>>>,
                            <<<<"c", "1", "@", "x">>>>>>

\* A destination text whose second redundant destination repeats the first:
\* the forward was called with one redundant destination
C21_WitnessDroppedGroup ==
    /\ userDestination = <<"a", "1", "@", "x", ",", " ", "a", "1", "@", "x">>
    /\ pc = "AcceptForwarding"
    /\ multiDestination = <<<<<<"a", "1", "@", "x">>>>>>

(***************************************************************************)
(* The configured addresses of a destination text: its pieces between two  *)
(* neighbouring separators (of either kind) or ends of the text, trimmed.  *)
(***************************************************************************)
IsAddressSeparator(c) ==
    <<c>> \in {FORMAT_REDUNDANT_ADDRESS_SEPARATOR, FORMAT_SIMPLE_ADDRESS_SEPARATOR}

ConfiguredAddresses(text) ==
    {trim(SubSeq(text, i, j)) :
        <<i, j>> \in {<<i, j>> \in (1..Len(text) + 1) \X (0..Len(text)) :
            /\ i <= j + 1
            /\ i = 1 \/ IsAddressSeparator(text[i - 1])
            /\ j = Len(text) \/ IsAddressSeparator(text[j + 1])
            /\ \A k \in i..j : ~IsAddressSeparator(text[k])}}

\* The user of the recipient address, in lower case
LowerCaseUser ==
    LET atOrPlus == {i \in 1..Len(messageTo) : messageTo[i] \in {"@", "+"}}
        first == CHOOSE i \in atOrPlus : \A k \in atOrPlus : i <= k
    IN toLowerCase(SubSeq(messageTo, 1, first - 1))

\* The address that a configured address is delivered to
DeliveryAddress(configured) ==
    IF configured # <<>> /\ (<<configured[1]>> = FORMAT_LOCAL_PART_SEPARATOR
                             \/ configured[1] = "@")
    THEN LowerCaseUser \o configured
    ELSE configured

DeliveryAddresses(text) ==
    {DeliveryAddress(configured) : configured \in ConfiguredAddresses(text)}

\* The addresses that a forward is called with
AddressesOf(validRedundant) ==
    {validRedundant[p[1]][p[2]] : p \in PlacesOf(validRedundant)}

(***************************************************************************)
(* C22. A configured destination or reject address that starts with the    *)
(* local-part separator or with '@' is delivered to with the message's     *)
(* user, in lower case, prepended; every other configured address is       *)
(* delivered to as it is. So the addresses each forward is called with     *)
(* are the valid ones among the addresses so derived, and every attempt    *)
(* made in an invocation went to one of them.                              *)
(***************************************************************************)
C22_UserIsPrependedToPartialAddresses ==
    /\ pc = "AcceptForwarding" /\ forwardOutcome["AcceptForwarding"] = "called"
                               /\ started = 0
       => AddressesOf(multiDestination)
            = {address \in DeliveryAddresses(userDestination) :
                  isValidEmailAddress(address)}
    /\ pc = "RejectForwarding" /\ forwardOutcome["RejectForwarding"] = "called"
                               /\ started = 0
       => AddressesOf(multiDestination)
            = {address \in DeliveryAddresses(userRejectTreatment) :
                  isValidEmailAddress(address)}
    /\ pc \in {"resolved", "threw"}
       => /\ \A attempt \in AttemptsOf("AcceptForwarding") :
                CallsOf("AcceptForwarding", attempt[1])[attempt[2]].destination
                   \in DeliveryAddresses(userDestination)
          /\ \A attempt \in AttemptsOf("RejectForwarding") :
                CallsOf("RejectForwarding", attempt[1])[attempt[2]].destination
                   \in DeliveryAddresses(userRejectTreatment)

\* For the recipient U+T@d the destination +t@x:@x was delivered to as
\* u@x, after an attempt to u+t@x failed
C22_Witness ==
    /\ messageTo = <<"U", "+", "T", "@", "d">>
    /\ userDestination = <<"+", "t", "@", "x", ":", "@", "x", ",",
                           "u", "+", "t", "@", "x">>
    /\ \E g \in GroupsOf("AcceptForwarding") :
          /\ Len(CallsOf("AcceptForwarding", g)) = 2
          /\ CallsOf("AcceptForwarding", g)[1].destination = <<"u", "+", "t", "@", "x">>
          /\ CallsOf("AcceptForwarding", g)[2].destination = <<"u", "@", "x">>
          /\ DeliveredIn("AcceptForwarding", g)

\* The same for the reject destinations +r@x:@x,R1@x
C22_WitnessRejectForward ==
    /\ messageTo = <<"U", "+", "T", "@", "d">>
    /\ pc = "RejectForwarding"
    /\ multiDestination = <<<<<<"u", "+", "r", "@", "x">>, <<"u", "@", "x">>>>,
                            <<<<"R", "1", "@", "x">>>>>>

(***************************************************************************)
(* The reject treatments by precedence: the one of the user's entry, the   *)
(* global one (stored, else the environment's) and the environment's,      *)
(* each trimmed.                                                           *)
(***************************************************************************)
RejectTreatmentLayers ==
    <<IF UserEntryFound THEN trim(RejectTreatmentSegment(MAP[messageUser])) ELSE <<>>,
      trim(ByPrecedence(<<"@", "REJECT_TREATMENT">>, "REJECT_TREATMENT")),
      trim(WithoutStore("REJECT_TREATMENT"))>>

\* A treatment that gives a reason: not empty, and not an address, which
\* the code tells by its '@'
GivesReason(treatment) ==
    /\ treatment # <<>>
    /\ \A i \in 1..Len(treatment) : treatment[i] # "@"

\* The reason chosen: that of the first layer that gives one, else the
\* built-in default
ChosenRejectReason ==
    IF \E l \in 1..3 : GivesReason(RejectTreatmentLayers[l])
    THEN RejectTreatmentLayers[
             CHOOSE l \in 1..3 :
                 /\ GivesReason(RejectTreatmentLayers[l])
                 /\ \A m \in 1..(l - 1) : ~GivesReason(RejectTreatmentLayers[m])]
    ELSE <<":", " ", "I", "n", "v", "a", "l", "i", "d", " ",
           "r", "e", "c", "i", "p", "i", "e", "n", "t">>

\* The text before the first '@' of the recipient address
FullLocalPart ==
    SubSeq(messageTo, 1,
           (CHOOSE i \in 1..Len(messageTo) :
                /\ messageTo[i] = "@"
                /\ \A k \in 1..(i - 1) : messageTo[k] # "@") - 1)

\* The reason as setReject is to get it
WithLocalPart(reason) ==
    IF reason[1] \in Letters \cup Digits
    THEN reason
    ELSE FullLocalPart \o reason

(***************************************************************************)
(* C23. The reason of the direct reject is the first of the user's reject  *)
(* treatment, the global (stored) reject treatment and the environment's   *)
(* reject treatment that is not an address (nor empty), and the built-in   *)
(* default reason if there is none; the code takes a treatment with an     *)
(* '@' for an address. This is also so after a reject forward to a reject  *)
(* destination has failed unrecoverably.                                   *)
(***************************************************************************)
C23_RejectReasonByPrecedence ==
    /\ pc = "accept" => userRejectReason = ChosenRejectReason
    /\ setRejectCalls # <<>>
       => setRejectCalls = <<WithLocalPart(ChosenRejectReason)>>

\* The user's reject treatment is a reject destination to which the reject
\* forward failed unrecoverably, the stored global one is a reject
\* destination too: the direct reject has the environment's reason
C23_Witness ==
    /\ UserEntryFound
    /\ RejectTreatmentLayers = <<<<"r", "1", "@", "x">>, <<"g", "1", "@", "x">>,
                                 <<"n", "o", " ", "u", "s", "e", "r">>>>
    /\ forwardOutcome["RejectForwarding"] = "false"
    /\ \E g \in GroupsOf("RejectForwarding") :
          /\ CallsOf("RejectForwarding", g)[1].destination = <<"r", "1", "@", "x">>
          /\ HadFailure("RejectForwarding", g, IsUnrecoverableFailure)
    /\ setRejectCalls = <<<<"n", "o", " ", "u", "s", "e", "r">>>>

\* Every layer is a reject destination: the direct reject has the built-in
\* default reason
C23_WitnessDefault ==
    /\ RejectTreatmentLayers = <<<<"r", "1", "@", "x">>, <<"g", "1", "@", "x">>,
                                 <<"e", "1", "@", "x">>>>
    /\ forwardOutcome["RejectForwarding"] = "false"
    /\ setRejectCalls = <<FullLocalPart \o trim(DEFAULTS["REJECT_TREATMENT"])>>

\* The user's entry gives a reason: it is chosen before the stored and the
\* environment's reason
C23_WitnessUserReason ==
    /\ RejectTreatmentLayers = <<<<"g", "o", "n", "e">>, <<"s", "o", "r", "r", "y">>,
                                 <<"n", "o", " ", "u", "s", "e", "r">>>>
    /\ setRejectCalls = <<<<"g", "o", "n", "e">>>>

(***************************************************************************)
(* C24. The string passed to setReject is the chosen reject reason with    *)
(* the message's full local part, as the recipient address has it,         *)
(* prepended exactly when the reason starts with a character that is not   *)
(* a letter or a digit; a reason that starts with a letter or a digit is   *)
(* passed as it is.                                                        *)
(***************************************************************************)
C24_LocalPartPrependedToReason ==
    setRejectCalls # <<>>
    => /\ Len(setRejectCalls) = 1
       /\ userRejectReason # <<>>
       /\ userRejectReason[1] \in Letters \cup Digits
          => setRejectCalls[1] = userRejectReason
       /\ userRejectReason[1] \notin Letters \cup Digits
          => setRejectCalls[1] = FullLocalPart \o userRejectReason

\* The recipient U+T@d was rejected with the reason ": go" of the user's
\* entry: the local part is prepended in the recipient's letter case
C24_Witness ==
    /\ messageTo = <<"U", "+", "T", "@", "d">>
    /\ userRejectReason = <<":", " ", "g", "o">>
    /\ setRejectCalls = <<<<"U", "+", "T", ":", " ", "g", "o">>>>

\* A reason that starts with a digit is passed as it is
C24_WitnessDigit ==
    /\ messageTo = <<"U", "+", "T", "@", "d">>
    /\ setRejectCalls = <<<<"9", "x">>>>

\* A reason that starts with an exclamation mark after trimming
C24_WitnessTrimmed ==
    /\ messageTo = <<"u", "@", "d">>
    /\ setRejectCalls = <<<<"u", "!", "b", "y", "e">>>>

(***************************************************************************)
(* Nothing is configured: every environment variable is missing and the    *)
(* store is empty.                                                         *)
(***************************************************************************)
AllDefaults ==
    /\ \A name \in DOMAIN environment : environment[name] = Undefined
    /\ DOMAIN MAP = {}

NoForwardCall ==
    \A actionType \in ActionTypes : forwardCalls[actionType] = <<>>

\* C25 as stated: with nothing configured the message is rejected once with
\* "Invalid recipient" and forward is never called
C25_DefaultsRejectWithInvalidRecipient ==
    AllDefaults
    => /\ NoForwardCall
       /\ Len(setRejectCalls) <= 1
       /\ pc \in {"resolved", "threw"}
          => /\ pc = "resolved"
             /\ setRejectCalls = <<<<"I", "n", "v", "a", "l", "i", "d", " ",
                                     "r", "e", "c", "i", "p", "i", "e", "n", "t">>>>

(***************************************************************************)
(* C25. With nothing configured (no USERS, no DESTINATION, every built-in  *)
(* default, an empty store), for any recipient address forward is never    *)
(* called and setReject is called exactly once, with the recipient's local *)
(* part followed by ": Invalid recipient".                                 *)
(***************************************************************************)
C25_DefaultsRejectWithLocalPartAndInvalidRecipient ==
    AllDefaults
    => /\ NoForwardCall
       /\ Len(setRejectCalls) <= 1
       /\ thrown = NoError
       /\ pc \in {"resolved", "threw"}
          => /\ pc = "resolved"
             /\ setRejectCalls = <<FullLocalPart
                                     \o <<":", " ", "I", "n", "v", "a", "l", "i", "d", " ",
                                          "r", "e", "c", "i", "p", "i", "e", "n", "t">>>>

\* Nothing is configured and the message to U+T@d has been rejected
C25_Witness ==
    /\ AllDefaults
    /\ messageTo = <<"U", "+", "T", "@", "d">>
    /\ pc = "resolved"
    /\ NoForwardCall
    /\ Len(setRejectCalls) = 1
    /\ setRejectCalls[1] = <<"U", "+", "T", ":", " ", "I", "n", "v", "a", "l", "i", "d", " ",
                             "r", "e", "c", "i", "p", "i", "e", "n", "t">>

(***************************************************************************)
(* The accept forward to two redundant destinations of one address each    *)
(* is over: the forward to the first address threw a recoverable error,    *)
(* the forward to the second one delivered.                                *)
(***************************************************************************)
FirstOfTwoFailedRecoverably ==
    /\ IsOver("AcceptForwarding")
    /\ GroupsOf("AcceptForwarding") = 1..2
    /\ Len(CallsOf("AcceptForwarding", 1)) = 1
    /\ IsRecoverableFailure(CallsOf("AcceptForwarding", 1)[1].result)
    /\ Len(CallsOf("AcceptForwarding", 2)) = 1
    /\ CallsOf("AcceptForwarding", 2)[1].result = Delivered
    /\ Len(ValidRedundantOf("AcceptForwarding")) = 2
    /\ \A g \in 1..2 : Len(ValidRedundantOf("AcceptForwarding")[g]) = 1

\* C26 as stated: with two single-address destinations of which the first
\* fails with a recoverable error and the second delivers, nothing is thrown
C26_FirstOfTwoFailedRecoverablyThrowsNothing ==
    FirstOfTwoFailedRecoverably
    => /\ thrown = NoError
       /\ forwardOutcome["AcceptForwarding"] # "threw"

(***************************************************************************)
(* C26. With a destination of two independent single-address groups, if    *)
(* the delivery to the first address throws a recoverable error and the    *)
(* delivery to the second succeeds, the forward throws the recoverable     *)
(* forward error, email() rejects with it, and neither a reject forward    *)
(* nor setReject follows.                                                  *)
(***************************************************************************)
C26_FirstOfTwoFailedRecoverablyThrows ==
    FirstOfTwoFailedRecoverably
    => /\ forwardOutcome["AcceptForwarding"] = "threw"
       /\ pc = "threw"
       /\ thrown = RECOVERABLE_FORWARD_INTERFACE_ERROR_MESSAGE
       /\ forwardCalls["RejectForwarding"] = <<>>
       /\ setRejectCalls = <<>>

\* The destination is "a1@x, b1@x": the forward to a1@x threw the recoverable
\* error, the one to b1@x delivered, and email() rejected
C26_Witness ==
    /\ FirstOfTwoFailedRecoverably
    /\ ValidRedundantOf("AcceptForwarding")
          = <<<<<<"a", "1", "@", "x">>>>, <<<<"b", "1", "@", "x">>>>>>
    /\ pc = "threw"

(***************************************************************************)
(* The accept forward to a single redundant destination of a single        *)
(* address is over, and the forward to that address failed.                *)
(***************************************************************************)
SingleAddressFailed ==
    /\ IsOver("AcceptForwarding")
    /\ GroupsOf("AcceptForwarding") = {1}
    /\ Len(CallsOf("AcceptForwarding", 1)) = 1
    /\ IsFailure(CallsOf("AcceptForwarding", 1)[1].result)
    /\ Len(ValidRedundantOf("AcceptForwarding")) = 1
    /\ Len(ValidRedundantOf("AcceptForwarding")[1]) = 1

\* The error message.forward threw
OriginalError == CallsOf("AcceptForwarding", 1)[1].result

C27_WitnessUnrecoverable ==
    /\ SingleAddressFailed
    /\ OriginalError = UNRECOVERABLE_FORWARD_IMPLEMENTATION_ERROR_MESSAGE
    /\ pc = "resolved"
    /\ thrown = NoError
    /\ Len(setRejectCalls) = 1

(***************************************************************************)
(* Every call of message.forward made so far failed with the message of    *)
(* an unverified destination, and the accept forward made one.             *)
(***************************************************************************)
OnlyUnverifiedFailures ==
    /\ forwardCalls["AcceptForwarding"] # <<>>
    /\ \A actionType \in ActionTypes :
          \A g \in GroupsOf(actionType) :
             /\ ~DeliveredIn(actionType, g)
             /\ EveryFailure(actionType, g, IsUnverifiedFailure)

(***************************************************************************)
(* C28. A delivery failure with the message of an unverified destination   *)
(* never causes an exception by itself: in a forward that is over the      *)
(* address after one that failed so was tried; a redundant destination     *)
(* without delivery whose only failures are such ones keeps the forward    *)
(* from throwing, and a forward that threw had a redundant destination     *)
(* with a recoverable error; and when such failures are the only outcome   *)
(* of forwarding, email() ends without an error and with setReject called  *)
(* once.                                                                   *)
(***************************************************************************)
C28_UnverifiedNeverThrowsByItself ==
    /\ \A actionType \in ActionTypes :
          /\ IsOver(actionType)
             => \A g \in GroupsOf(actionType) :
                   \A k \in 1..Len(CallsOf(actionType, g)) :
                      (/\ IsUnverifiedFailure(CallsOf(actionType, g)[k].result)
                       /\ k < Len(ValidRedundantOf(actionType)[g]))
                      => /\ Len(CallsOf(actionType, g)) > k
                         /\ CallsOf(actionType, g)[k + 1].destination
                               = ValidRedundantOf(actionType)[g][k + 1]
          /\ (/\ IsOver(actionType)
              /\ \E g \in GroupsOf(actionType) :
                    /\ ~DeliveredIn(actionType, g)
                    /\ EveryFailure(actionType, g, IsUnverifiedFailure))
             => forwardOutcome[actionType] = "false"
          /\ forwardOutcome[actionType] = "threw"
             => \E g \in GroupsOf(actionType) :
                   /\ ~DeliveredIn(actionType, g)
                   /\ HadFailure(actionType, g, IsRecoverableFailure)
    /\ (pc \in {"resolved", "threw"} /\ OnlyUnverifiedFailures)
       => /\ pc = "resolved"
          /\ thrown = NoError
          /\ Len(setRejectCalls) = 1

\* Both addresses of the only redundant destination of the accept forward
\* were tried and are not verified; nothing was thrown and the message was
\* rejected once
C28_Witness ==
    /\ pc = "resolved"
    /\ OnlyUnverifiedFailures
    /\ \E g \in GroupsOf("AcceptForwarding") : Len(CallsOf("AcceptForwarding", g)) = 2
    /\ thrown = NoError
    /\ Len(setRejectCalls) = 1

\* One redundant destination has only an unverified address, another one
\* failed with the recoverable error: the forward returned false
C28_WitnessBesideRecoverable ==
    /\ forwardOutcome["AcceptForwarding"] = "false"
    /\ \E g \in GroupsOf("AcceptForwarding") :
          /\ ~DeliveredIn("AcceptForwarding", g)
          /\ EveryFailure("AcceptForwarding", g, IsUnverifiedFailure)
    /\ \E g \in GroupsOf("AcceptForwarding") :
          /\ ~DeliveredIn("AcceptForwarding", g)
          /\ HadFailure("AcceptForwarding", g, IsRecoverableFailure)

\* The reject forward too had only unverified addresses
C28_WitnessRejectForward ==
    /\ pc = "resolved"
    /\ OnlyUnverifiedFailures
    /\ forwardCalls["RejectForwarding"] # <<>>
    /\ Len(setRejectCalls) = 1

(***************************************************************************)
(* The local parts that differ from a local part in letter case alone.     *)
(***************************************************************************)
UpperChar(c) ==
    IF \E i \in 1..26 : LowerCaseLetters[i] = c
    THEN UpperCaseLetters[CHOOSE i \in 1..26 : LowerCaseLetters[i] = c]
    ELSE c

CaseVariants(localPart) ==
    {[i \in 1..Len(localPart) |->
         IF i \in upper THEN UpperChar(localPart[i]) ELSE LowerChar(localPart[i])] :
        upper \in SUBSET (1..Len(localPart))}

(***************************************************************************)
(* Admission and delivery addresses of a recipient with a given local      *)
(* part, under the configuration as loaded: by the lower-case user before  *)
(* the first local-part separator and the lower-case subaddress after it.  *)
(***************************************************************************)
UserOfLocalPart(localPart) ==
    LET lower == toLowerCase(localPart)
        separators == {i \in 1..Len(lower) : <<lower[i]>> = FORMAT_LOCAL_PART_SEPARATOR}
    IN IF separators = {} THEN lower
       ELSE SubSeq(lower, 1, (CHOOSE i \in separators : \A k \in separators : i <= k) - 1)

SubaddressOfLocalPart(localPart) ==
    LET lower == toLowerCase(localPart)
    IN SubSeq(lower, Len(UserOfLocalPart(localPart)) + 2, Len(lower))

EntryFoundOf(user) == useStoredUserConfiguration /\ user \in DOMAIN MAP

UserAdmittedOf(user) ==
    \/ EntryFoundOf(user)
    \/ globalUsers = <<"*">>
    \/ user \in EntriesOf(globalUsers)

SubaddressPolicyOf(user) ==
    IF useStoredUserConfiguration /\ (user \o FORMAT_LOCAL_PART_SEPARATOR) \in DOMAIN MAP
    THEN toLowerCase(trim(MAP[user \o FORMAT_LOCAL_PART_SEPARATOR]))
    ELSE globalSubaddresses

SubaddressAdmittedOf(user, subaddress) ==
    LET policy == SubaddressPolicyOf(user)
        required == policy # <<>> /\ <<Head(policy)>> = FORMAT_LOCAL_PART_SEPARATOR
        listed == IF required THEN Tail(policy) ELSE policy
    IN IF subaddress = <<>>
       THEN ~required
       ELSE listed = <<"*">> \/ subaddress \in EntriesOf(listed)

AdmittedWith(localPart) ==
    /\ UserAdmittedOf(UserOfLocalPart(localPart))
    /\ SubaddressAdmittedOf(UserOfLocalPart(localPart), SubaddressOfLocalPart(localPart))

DestinationOf(user) ==
    IF EntryFoundOf(user) /\ ~IsBlank(DestinationSegment(MAP[user]))
    THEN trim(DestinationSegment(MAP[user]))
    ELSE globalDestination

\* The configured addresses as they are, a partial one after the user
DeliveryAddressesWith(localPart) ==
    LET user == UserOfLocalPart(localPart)
    IN {address \in
           {IF configured # <<>>
               /\ (<<configured[1]>> = FORMAT_LOCAL_PART_SEPARATOR \/ configured[1] = "@")
            THEN user \o configured
            ELSE configured : configured \in ConfiguredAddresses(DestinationOf(user))} :
           isValidEmailAddress(address)}

(***************************************************************************)
(* C29. Changing only the letter case of the recipient's local part never  *)
(* changes whether the message is admitted nor the set of addresses it is  *)
(* delivered to: for every local part that differs from the recipient's in *)
(* letter case alone, the message is admitted exactly when a recipient     *)
(* with that local part is, and the accept forward is called for exactly   *)
(* the delivery addresses of that local part. Destination addresses are    *)
(* delivered to as configured, in their letter case: every attempt of the  *)
(* accept forward goes to a configured address as it is written, or to a   *)
(* configured partial address after the lower-case user.                   *)
(***************************************************************************)
C29_LocalPartCaseDoesNotMatter ==
    /\ pc = "accept"
       => \A variant \in CaseVariants(FullLocalPart) :
             /\ (messageUserIsAllowed /\ messageSubaddressIsAllowed)
                   <=> AdmittedWith(variant)
             /\ AddressesOf(acceptMultiDestination.validRedundant)
                   = DeliveryAddressesWith(variant)
    /\ pc \in {"resolved", "threw"}
       => /\ forwardOutcome["AcceptForwarding"] # "none"
             => \A variant \in CaseVariants(FullLocalPart) : AdmittedWith(variant)
          /\ \A attempt \in AttemptsOf("AcceptForwarding") :
                \A variant \in CaseVariants(FullLocalPart) :
                   CallsOf("AcceptForwarding", attempt[1])[attempt[2]].destination
                      \in DeliveryAddressesWith(variant)

\* The recipient U+T@d with the user u and the subaddress T configured: the
\* message was delivered to K1@X, as configured
C29_Witness ==
    /\ messageTo = <<"U", "+", "T", "@", "d">>
    /\ environment["USERS"] = <<"u">>
    /\ environment["SUBADDRESSES"] = <<"T">>
    /\ DOMAIN MAP = {}
    /\ pc = "resolved"
    /\ \E g \in GroupsOf("AcceptForwarding") :
          /\ CallsOf("AcceptForwarding", g)[1].destination = <<"K", "1", "@", "X">>
          /\ DeliveredIn("AcceptForwarding", g)

\* The same configuration and the recipient u+t@d: the same delivery
C29_WitnessLowerCase ==
    /\ messageTo = <<"u", "+", "t", "@", "d">>
    /\ environment["USERS"] = <<"u">>
    /\ environment["SUBADDRESSES"] = <<"T">>
    /\ DOMAIN MAP = {}
    /\ pc = "resolved"
    /\ \E g \in GroupsOf("AcceptForwarding") :
          /\ CallsOf("AcceptForwarding", g)[1].destination = <<"K", "1", "@", "X">>
          /\ DeliveredIn("AcceptForwarding", g)

\* The recipient U@d whose entry is stored under u: delivered to B1@x
C29_WitnessStoredUser ==
    /\ messageTo = <<"U", "@", "d">>
    /\ environment["USERS"] = <<"w">>
    /\ UserEntryFound
    /\ pc = "resolved"
    /\ \E g \in GroupsOf("AcceptForwarding") :
          /\ CallsOf("AcceptForwarding", g)[1].destination = <<"B", "1", "@", "x">>
          /\ DeliveredIn("AcceptForwarding", g)

\* Recipients in either case that are not admitted: the user is not listed
C29_WitnessNotAdmitted ==
    /\ messageTo = <<"U", "+", "T", "@", "d">>
    /\ environment["USERS"] = <<"w">>
    /\ DOMAIN MAP = {}
    /\ pc = "resolved"
    /\ forwardOutcome["AcceptForwarding"] = "none"

(***************************************************************************)
(* The configured custom header name, trimmed, matches the pattern 'X-.*'  *)
(* somewhere: the pattern is not anchored.                                 *)
(***************************************************************************)
CustomHeaderName ==
    trim(IF environment["CUSTOM_HEADER"] # Undefined
         THEN environment["CUSTOM_HEADER"]
         ELSE DEFAULTS["CUSTOM_HEADER"])

CustomHeaderNameMatches ==
    \E i \in 1..(Len(CustomHeaderName) - 1) :
        CustomHeaderName[i] = "X" /\ CustomHeaderName[i + 1] = "-"

(***************************************************************************)
(* C30. If the configured custom header name does not match the pattern    *)
(* of valid custom headers, email() fails with 'Invalid custom header'     *)
(* when it loads the configuration, nothing follows that failure, and      *)
(* neither message.forward nor setReject is called in the invocation; and  *)
(* email() fails so for no other header name.                              *)
(***************************************************************************)
C30_InvalidCustomHeaderAborts ==
    /\ ~CustomHeaderNameMatches
       => /\ pc \in {"email", "threw"}
          /\ pc = "threw" => thrown = <<"Invalid custom header">>
          /\ \A actionType \in ActionTypes : forwardOutcome[actionType] = "none"
          /\ NoForwardCall
          /\ setRejectCalls = <<>>
          /\ customHeaders = <<>>
    /\ thrown = <<"Invalid custom header">> => ~CustomHeaderNameMatches
    /\ CustomHeaderNameMatches /\ pc # "email"
       => customHeader = CustomHeaderName

\* The custom header name is H: email() failed with 'Invalid custom header'
\* without a call of message.forward or setReject
C30_Witness ==
    /\ environment["CUSTOM_HEADER"] = <<"H">>
    /\ pc = "threw"
    /\ thrown = <<"Invalid custom header">>
    /\ NoForwardCall
    /\ setRejectCalls = <<>>

\* The pattern is case sensitive: x-h is not a valid name
C30_WitnessLowerCase ==
    /\ environment["CUSTOM_HEADER"] = <<"x", "-", "h">>
    /\ pc = "threw"
    /\ thrown = <<"Invalid custom header">>

\* A blank name is not valid
C30_WitnessBlank ==
    /\ environment["CUSTOM_HEADER"] = <<" ">>
    /\ pc = "threw"
    /\ thrown = <<"Invalid custom header">>

\* A valid name after trimming: the message was forwarded
C30_WitnessValid ==
    /\ environment["CUSTOM_HEADER"] = <<" ", "X", "-", "H", " ">>
    /\ pc = "resolved"
    /\ forwardOutcome["AcceptForwarding"] = "true"

(***************************************************************************)
(* C31. An invocation never changes the KV store or the environment        *)
(* object: no step of email() changes either of them, on any path, and     *)
(* the only operation on the store is get, of the four global keys and     *)
(* the two keys of the message's user.                                     *)
(***************************************************************************)
C31_StoreAndEnvironmentAreReadOnly ==
    /\ [][MAP' = MAP /\ environment' = environment]_vars
    /\ [](kvReads \subseteq GlobalKeys \cup UserKeys)

\* email() resolved after a reject: the store was read, and holds what the
\* input gave it
C31_Witness ==
    /\ pc = "resolved"
    /\ kvReads = GlobalKeys \cup UserKeys
    /\ Len(setRejectCalls) = 1
    /\ \E input \in Inputs :
          /\ input.MAP = MAP
          /\ input.environment = environment
          /\ DOMAIN MAP # {}
          /\ \E name \in DOMAIN environment : environment[name] = Undefined

\* email() threw after a forward, having read the store
C31_WitnessThrew ==
    /\ pc = "threw"
    /\ thrown = RECOVERABLE_FORWARD_INTERFACE_ERROR_MESSAGE
    /\ kvReads # {}
    /\ DOMAIN MAP # {}

\* email() resolved after a delivery
C31_WitnessDelivered ==
    /\ pc = "resolved"
    /\ forwardOutcome["AcceptForwarding"] = "true"
    /\ kvReads # {}
    /\ DOMAIN MAP # {}

(***************************************************************************)
(* The calls of message.forward of a phase, by redundant destination and   *)
(* place.                                                                  *)
(***************************************************************************)
CallPlacesOf(actionType) ==
    {<<g, k>> \in GroupsOf(actionType) \X (1..(4 * MaxAddresses)) :
        k <= Len(CallsOf(actionType, g))}

\* The number of calls of message.forward of a phase
RECURSIVE NumberOfCallsFrom(_, _)
NumberOfCallsFrom(actionType, g) ==
    IF g > Len(forwardCalls[actionType]) THEN 0
    ELSE Len(CallsOf(actionType, g)) + NumberOfCallsFrom(actionType, g + 1)

\* In each phase no address is attempted twice, every attempt goes to a
\* valid address of the phase's specification, and so the attempts of both
\* phases are no more than the valid addresses of both specifications
EachAddressAtMostOnce ==
    /\ \A actionType \in ActionTypes :
          /\ \A g \in GroupsOf(actionType) : Len(CallsOf(actionType, g)) <= 4 * MaxAddresses
          /\ \A p, q \in CallPlacesOf(actionType) :
                CallsOf(actionType, p[1])[p[2]].destination
                   = CallsOf(actionType, q[1])[q[2]].destination
                => p = q
          /\ \A p \in CallPlacesOf(actionType) :
                CallsOf(actionType, p[1])[p[2]].destination
                   \in AddressesOf(ValidRedundantOf(actionType))
    /\ NumberOfCallsFrom("AcceptForwarding", 1) + NumberOfCallsFrom("RejectForwarding", 1)
          <= Cardinality(AddressesOf(acceptMultiDestination.validRedundant))
               + Cardinality(AddressesOf(rejectMultiDestination.validRedundant))

(***************************************************************************)
(* C32. Provided every KV lookup and every delivery attempt returns or     *)
(* throws, every invocation terminates: email() resolves or rejects. In    *)
(* every phase each valid address is attempted at most once, a failed      *)
(* address is never retried, and the delivery attempts are no more than    *)
(* the valid addresses of the accept and of the reject specification       *)
(* together.                                                               *)
(***************************************************************************)
C32_TerminatesWithoutRetry ==
    /\ <>(pc \in {"resolved", "threw"})
    /\ [](pc \in {"resolved", "threw"} => EachAddressAtMostOnce)
    /\ [][(pc \in {"resolved", "threw"}) => (pc' = pc)]_vars

\* email() resolved after every address of both phases was attempted once
\* and failed: three addresses of the destination among them
C32_Witness ==
    /\ pc = "resolved"
    /\ Len(setRejectCalls) = 1
    /\ NumberOfCallsFrom("AcceptForwarding", 1)
          = Cardinality(AddressesOf(acceptMultiDestination.validRedundant))
    /\ NumberOfCallsFrom("AcceptForwarding", 1) = 3
    /\ NumberOfCallsFrom("RejectForwarding", 1)
          = Cardinality(AddressesOf(rejectMultiDestination.validRedundant))
    /\ NumberOfCallsFrom("RejectForwarding", 1) >= 1

\* email() rejected with fewer attempts than there are addresses
C32_WitnessThrew ==
    /\ pc = "threw"
    /\ NumberOfCallsFrom("AcceptForwarding", 1) >= 2
    /\ NumberOfCallsFrom("AcceptForwarding", 1)
          < Cardinality(AddressesOf(acceptMultiDestination.validRedundant))

(***************************************************************************)
(* The results of the calls of a redundant destination that failed, in     *)
(* their order, and the outcome that the results of all the calls of a     *)
(* forward give: neither reads anything but the results, address by        *)
(* address.                                                                *)
(***************************************************************************)
FailuresOf(actionType, g) ==
    LET failed == SelectSeq(CallsOf(actionType, g), LAMBDA call : IsFailure(call.result))
    IN [k \in 1..Len(failed) |-> failed[k].result]

OutcomeOfResults(actionType) ==
    IF /\ GroupsOf(actionType) # {}
       /\ \A g \in GroupsOf(actionType) : DeliveredIn(actionType, g)
    THEN "true"
    ELSE IF /\ GroupsOf(actionType) # {}
            /\ \A g \in GroupsOf(actionType) :
                  \/ DeliveredIn(actionType, g)
                  \/ HadFailure(actionType, g, IsRecoverableFailure)
         THEN "threw"
         ELSE "false"

(***************************************************************************)
(* C33. Redundant destinations are attempted independently of each other:  *)
(* in a forward that is over the first address of every redundant          *)
(* destination was attempted, whatever happened in the others; the result  *)
(* of a redundant destination that has returned (success, recoverable      *)
(* error, errors) is given by the results of its own calls; and the        *)
(* outcome of the forward (true, false or the throw) is given by the       *)
(* results of the calls, address by address, in whatever order the calls   *)
(* of different redundant destinations settled.                            *)
(***************************************************************************)
C33_RedundantDestinationsAreIndependent ==
    /\ \A actionType \in ActionTypes :
          IsOver(actionType)
          => /\ Len(forwardCalls[actionType]) = Len(ValidRedundantOf(actionType))
             /\ \A g \in GroupsOf(actionType) :
                   /\ Len(CallsOf(actionType, g)) >= 1
                   /\ CallsOf(actionType, g)[1].destination
                         = ValidRedundantOf(actionType)[g][1]
             /\ forwardOutcome[actionType] = OutcomeOfResults(actionType)
    /\ Forwarding
       => \A g \in 1..started :
             rd[g].pc = "returned"
             => /\ redundantDestinationResults[g].wasSuccessful = DeliveredIn(pc, g)
                /\ redundantDestinationResults[g].hadRecoverableError
                      = HadFailure(pc, g, IsRecoverableFailure)
                /\ redundantDestinationResults[g].errors = FailuresOf(pc, g)

\* The second redundant destination has returned after two attempts while
\* the first attempt of the first one is outstanding
C33_Witness ==
    /\ pc = "AcceptForwarding"
    /\ Len(multiDestination) = 2
    /\ rd[1].pc = "awaiting"
    /\ Len(CallsOf("AcceptForwarding", 1)) = 1
    /\ rd[2].pc = "returned"
    /\ Len(CallsOf("AcceptForwarding", 2)) = 2
    /\ IsUnrecoverableFailure(CallsOf("AcceptForwarding", 2)[1].result)
    /\ CallsOf("AcceptForwarding", 2)[2].result = Delivered

\* The other order: the first redundant destination has returned while the
\* second attempt of the second one is outstanding
C33_WitnessOtherOrder ==
    /\ pc = "AcceptForwarding"
    /\ Len(multiDestination) = 2
    /\ rd[1].pc = "returned"
    /\ CallsOf("AcceptForwarding", 1)[1].result = Delivered
    /\ rd[2].pc = "awaiting"
    /\ Len(CallsOf("AcceptForwarding", 2)) = 2
    /\ IsUnrecoverableFailure(CallsOf("AcceptForwarding", 2)[1].result)

\* The first redundant destination failed at once with an unrecoverable
\* error, before the second one was entered, whose first address was
\* attempted all the same and failed with a recoverable error: the forward
\* returned false
C33_WitnessAfterFailure ==
    /\ forwardOutcome["AcceptForwarding"] = "false"
    /\ GroupsOf("AcceptForwarding") = 1..2
    /\ CallsOf("AcceptForwarding", 1)
          = <<[destination |-> <<"a", "1", "@", "x">>,
               headers |-> <<customHeader, customHeaderPass>>,
               result |-> UNRECOVERABLE_FORWARD_IMPLEMENTATION_ERROR_MESSAGE]>>
    /\ Len(CallsOf("AcceptForwarding", 2)) = 1
    /\ IsRecoverableFailure(CallsOf("AcceptForwarding", 2)[1].result)

(***************************************************************************)
(* A redundant destination has finished all the attempts it is going to    *)
(* make: it has returned, none of its calls is outstanding, and it         *)
(* delivered with its last call or has tried every one of its addresses.   *)
(***************************************************************************)
HasFinished(g) ==
    /\ rd[g].pc = "returned"
    /\ Len(forwardCalls[pc][g]) >= 1
    /\ \A k \in 1..Len(forwardCalls[pc][g]) : forwardCalls[pc][g][k].result # Pending
    /\ \/ forwardCalls[pc][g][Len(forwardCalls[pc][g])].result = Delivered
       \/ Len(forwardCalls[pc][g]) = Len(multiDestination[g])

(***************************************************************************)
(* C34. A forward returns or throws only after every redundant             *)
(* destination has finished all the attempts it is going to make: at the   *)
(* step in which forwardToMultiDestination returns or throws, every        *)
(* redundant destination has returned, has no attempt outstanding and no   *)
(* address left that it would try; and no call is made or settles for a    *)
(* forward that is over.                                                   *)
(***************************************************************************)
C34_ForwardEndsAfterEveryRedundantDestination ==
    /\ [][\A actionType \in ActionTypes :
            (~IsOver(actionType) /\ IsOver(actionType)')
            => /\ pc = actionType
               /\ started = Len(multiDestination)
               /\ \A g \in 1..Len(multiDestination) : HasFinished(g)]_vars
    /\ [][\A actionType \in ActionTypes :
            IsOver(actionType)
            => forwardCalls'[actionType] = forwardCalls[actionType]]_vars
    /\ [](\A actionType \in ActionTypes :
            IsOver(actionType)
            => \A g \in GroupsOf(actionType) :
                  \A k \in 1..Len(CallsOf(actionType, g)) :
                     CallsOf(actionType, g)[k].result # Pending)

\* The forward threw: its first redundant destination failed with a
\* recoverable error at its only address, its second made two attempts
\* and failed with a recoverable error too
C34_Witness ==
    /\ forwardOutcome["AcceptForwarding"] = "threw"
    /\ GroupsOf("AcceptForwarding") = 1..2
    /\ Len(CallsOf("AcceptForwarding", 1)) = 1
    /\ IsRecoverableFailure(CallsOf("AcceptForwarding", 1)[1].result)
    /\ Len(CallsOf("AcceptForwarding", 2)) = 2
    /\ IsRecoverableFailure(CallsOf("AcceptForwarding", 2)[2].result)

\* The first redundant destination has failed with a recoverable error
\* while the second attempt of the second one is outstanding: the forward
\* has not thrown
C34_WitnessOutstanding ==
    /\ pc = "AcceptForwarding"
    /\ forwardOutcome["AcceptForwarding"] = "called"
    /\ Len(multiDestination) = 2
    /\ rd[1].pc = "returned"
    /\ rd[1].hadRecoverableError
    /\ ~rd[1].wasSuccessful
    /\ rd[2].pc = "awaiting"
    /\ Len(CallsOf("AcceptForwarding", 2)) = 2

(***************************************************************************)
(* Local parts and separators that the parser is applied to: every text    *)
(* of some letters and separator characters up to the bound, and           *)
(* separators of one and two characters.                                   *)
(***************************************************************************)
LocalParts ==
    UNION {[1..n -> {"u", "T", "+", "-"}] : n \in 0..MaxLocalPart}

LocalPartSeparators == {<<"+">>, <<"-">>, <<"-", "-">>, <<"+", "-">>}

\* Where the separator occurs in a text
OccurrencesIn(text, separator) ==
    {i \in 1..(Len(text) - Len(separator) + 1) :
        \A k \in 1..Len(separator) : text[i + k - 1] = separator[k]}

\* What the parser is to give for a local part and a separator
ParsesAsStated(localPart, separator) ==
    LET lower == [i \in 1..Len(localPart) |-> LowerChar(localPart[i])]
        parts == addressLocalParts(localPart, separator)
        user == parts[1]
        subaddress == parts[2]
    IN /\ Len(parts) = 2
       /\ OccurrencesIn(lower, separator) = {}
          => /\ user = lower
             /\ subaddress = <<>>
       /\ OccurrencesIn(lower, separator) # {}
          => LET first == CHOOSE i \in OccurrencesIn(lower, separator) :
                             \A j \in OccurrencesIn(lower, separator) : i <= j
             IN /\ user = SubSeq(lower, 1, first - 1)
                /\ subaddress = SubSeq(lower, first + Len(separator), Len(lower))
                /\ user \o separator \o subaddress = lower
                /\ OccurrencesIn(user \o SubSeq(separator, 1, Len(separator) - 1),
                                 separator) = {}

ParsesEveryLocalPartAsStated ==
    \A localPart \in LocalParts :
        \A separator \in LocalPartSeparators : ParsesAsStated(localPart, separator)

(***************************************************************************)
(* C35. For any local part and separator the parser returns the            *)
(* lower-cased text before the first occurrence of the separator as user   *)
(* and everything after that occurrence, further separators included, as   *)
(* subaddress; when the separator does not occur, the user is the whole    *)
(* lower-cased local part and the subaddress is empty. Whenever the        *)
(* separator occurs, user, separator and subaddress make up the            *)
(* lower-cased local part. This is so for every local part and separator   *)
(* within the bounds, and for the user and the subaddress that email()     *)
(* takes from the recipient of the message.                                *)
(***************************************************************************)
C35_LocalPartIsSplitAtFirstSeparator ==
    /\ ParsesEveryLocalPartAsStated
    /\ pc = "accept"
       => /\ ParsesAsStated(FullLocalPart, FORMAT_LOCAL_PART_SEPARATOR)
          /\ <<messageUser, messageSubaddress>>
                = addressLocalParts(FullLocalPart, FORMAT_LOCAL_PART_SEPARATOR)

\* The recipient U+S+T@d: the user is u, the subaddress s+t
C35_Witness ==
    /\ pc = "accept"
    /\ messageTo = <<"U", "+", "S", "+", "T", "@", "d">>
    /\ messageUser = <<"u">>
    /\ messageSubaddress = <<"s", "+", "t">>

\* The recipient u@d: no separator, no subaddress
C35_WitnessNoSeparator ==
    /\ pc = "accept"
    /\ messageTo = <<"u", "@", "d">>
    /\ messageUser = <<"u">>
    /\ messageSubaddress = <<>>

\* The recipient +t@d: the user is empty
C35_WitnessNoUser ==
    /\ pc = "accept"
    /\ messageTo = <<"+", "t", "@", "d">>
    /\ messageUser = <<>>
    /\ messageSubaddress = <<"t">>

(***************************************************************************)
(* The candidates of a destination text in their order: the text is split  *)
(* at the separator of redundant destinations and each part at the         *)
(* separator of simple addresses; each candidate is then taken as the      *)
(* validation takes it, with the user prepended where it starts with the   *)
(* separator of local parts or with '@'.                                   *)
(***************************************************************************)
RECURSIVE ConcatAll(_)
ConcatAll(seqs) ==
    IF seqs = <<>> THEN <<>> ELSE Head(seqs) \o ConcatAll(Tail(seqs))

RawCandidatesOf(text) ==
    LET parts == split(text, <<",">>)
    IN ConcatAll([i \in 1..Len(parts) |-> split(parts[i], <<":">>)])

WithUserPrepended(candidate) ==
    IF candidate # <<>> /\ candidate[1] \in {"+", "@"}
    THEN messageUser \o candidate
    ELSE candidate

CandidatesOf(text) ==
    LET raw == RawCandidatesOf(text)
    IN [i \in 1..Len(raw) |-> WithUserPrepended(trim(raw[i]))]

NumberOf(array, x) == Cardinality({i \in 1..Len(array) : array[i] = x})

ElementsOf(array) == {array[i] : i \in 1..Len(array)}

\* The non-empty candidates of the text that are no addresses are in the
\* invalid list
InvalidAreRecorded(text, validated) ==
    \A candidate \in ElementsOf(CandidatesOf(text)) :
        (candidate # <<>> /\ ~isValidEmailAddress(candidate))
           => candidate \in ElementsOf(validated.invalidSimple)

\* Every repetition of an address after its first occurrence is in the
\* duplicate list
DuplicatesAreRecorded(text, validated) ==
    \A candidate \in ElementsOf(CandidatesOf(text)) :
        isValidEmailAddress(candidate)
           => /\ NumberOf(validated.validSimple, candidate) = 1
              /\ NumberOf(validated.duplicateSimple, candidate)
                    = NumberOf(CandidatesOf(text), candidate) - 1

EmptyAreNotRecorded(validated) ==
    <<>> \notin ElementsOf(validated.invalidSimple)
                   \cup ElementsOf(validated.duplicateSimple)

\* A warning names every candidate that is no address and every dropped
\* duplicate
EachIsWarnedAbout(text, validated, destinationType) ==
    LET warnings == warnAboutBadDestinations(messageUser, validated, destinationType)
        warnedAbout(issue) ==
            UNION {ElementsOf(warnings[i].destinations) :
                      i \in {j \in 1..Len(warnings) : warnings[j].issue = issue}}
    IN \A candidate \in ElementsOf(CandidatesOf(text)) :
          /\ (candidate # <<>> /\ ~isValidEmailAddress(candidate))
                => candidate \in warnedAbout("invalidly formatted")
          /\ (isValidEmailAddress(candidate)
                /\ NumberOf(CandidatesOf(text), candidate) > 1)
                => candidate \in warnedAbout("duplicate")

BadDestinationsAreRecorded(text, validated, destinationType) ==
    /\ InvalidAreRecorded(text, validated)
    /\ DuplicatesAreRecorded(text, validated)
    /\ EmptyAreNotRecorded(validated)
    /\ EachIsWarnedAbout(text, validated, destinationType)

(***************************************************************************)
(* C36. Every non-empty candidate address that does not match the pattern  *)
(* of addresses is in the invalid list of the validation result and every  *)
(* dropped duplicate in its duplicate list, a warning is written for each  *)
(* of them, and empty candidates are in neither list. This is stated of    *)
(* the validated destinations of the accept forward and of the reject      *)
(* forward once the forward has been called.                               *)
(***************************************************************************)
C36_BadDestinationsAreRecordedAndWarnedAbout ==
    /\ pc = "AcceptForwarding"
       => BadDestinationsAreRecorded(userDestination, acceptMultiDestination,
                                     "AcceptForward")
    /\ pc = "RejectForwarding"
       => BadDestinationsAreRecorded(userRejectTreatment, rejectMultiDestination,
                                     "RejectForward")

\* The destination a1@x:b d,a1@x: the candidate b d is in no list and no
\* warning names it, the second a1@x is in the duplicate list
C36_Witness ==
    /\ pc = "AcceptForwarding"
    /\ userDestination = <<"a", "1", "@", "x", ":", "b", " ", "d", ",", "a", "1", "@", "x">>
    /\ validateRedundantDestination(<<"a", "1", "@", "x", ":", "b", " ", "d">>).invalidSimple
          = <<<<"b", " ", "d">>>>
    /\ acceptMultiDestination.invalidSimple = <<>>
    /\ acceptMultiDestination.duplicateSimple = <<<<"a", "1", "@", "x">>>>
    /\ Len(warnAboutBadDestinations(messageUser, acceptMultiDestination,
                                    "AcceptForward")) = 1

\* What holds of the lists: duplicates are recorded and warned about, empty
\* candidates are in neither list, and the invalid list stays empty
C36_DuplicatesAreRecordedInvalidAreNot ==
    /\ pc = "AcceptForwarding"
       => /\ DuplicatesAreRecorded(userDestination, acceptMultiDestination)
          /\ EmptyAreNotRecorded(acceptMultiDestination)
          /\ acceptMultiDestination.invalidSimple = <<>>
    /\ pc = "RejectForwarding"
       => /\ DuplicatesAreRecorded(userRejectTreatment, rejectMultiDestination)
          /\ EmptyAreNotRecorded(rejectMultiDestination)
          /\ rejectMultiDestination.invalidSimple = <<>>

\* A text without any of its whitespace
WithoutWhitespace(text) ==
    LET kept == {i \in 1..Len(text) : text[i] # " "}
        RECURSIVE from(_)
        from(i) ==
            IF i > Len(text) THEN <<>>
            ELSE IF i \in kept THEN <<text[i]>> \o from(i + 1)
            ELSE from(i + 1)
    IN from(1)

\* A text without the whitespace at its two ends
TrimmedAtEnds(text) ==
    LET kept == {i \in 1..Len(text) : text[i] # " "}
    IN IF kept = {} THEN <<>>
       ELSE SubSeq(text,
                   CHOOSE i \in kept : \A j \in kept : i <= j,
                   CHOOSE i \in kept : \A j \in kept : j <= i)

\* The addresses accepted of a text are its candidates without ALL their
\* whitespace that are addresses
AcceptedWithoutAnyWhitespace(text, validated) ==
    \A raw \in ElementsOf(RawCandidatesOf(text)) :
        LET candidate == WithUserPrepended(WithoutWhitespace(raw))
        IN isValidEmailAddress(candidate)
              => candidate \in ElementsOf(validated.validSimple)

\* The addresses accepted of a text are its candidates without the
\* whitespace at their ends that are addresses
AcceptedAsTrimmedAtEnds(text, validated) ==
    ElementsOf(validated.validSimple)
       = {candidate \in {WithUserPrepended(TrimmedAtEnds(raw)) :
                            raw \in ElementsOf(RawCandidatesOf(text))} :
             isValidEmailAddress(candidate)}

\* The candidates of a text with whitespace inside them
WithWhitespaceInside(text) ==
    {raw \in ElementsOf(RawCandidatesOf(text)) :
        " " \in ElementsOf(TrimmedAtEnds(raw))}

\* A candidate with whitespace inside is accepted neither as it is nor
\* without the whitespace, unless that address is another candidate
NoneAcceptedForWhitespaceInside(text, validated) ==
    \A raw \in WithWhitespaceInside(text) :
        /\ WithUserPrepended(TrimmedAtEnds(raw)) \notin ElementsOf(validated.validSimple)
        /\ WithUserPrepended(WithoutWhitespace(raw)) \in ElementsOf(validated.validSimple)
              => \E other \in ElementsOf(RawCandidatesOf(text)) \ WithWhitespaceInside(text) :
                    WithUserPrepended(TrimmedAtEnds(other))
                       = WithUserPrepended(WithoutWhitespace(raw))

\* The destination and the reject treatment of the message's user as they
\* are configured, with all their whitespace: those of the user's entry
\* unless blank, else those stored, else the environment's
ConfiguredDestinationText ==
    IF UserEntryFound /\ ~IsBlank(DestinationSegment(MAP[messageUser]))
    THEN DestinationSegment(MAP[messageUser])
    ELSE ByPrecedence(<<"@", "DESTINATION">>, "DESTINATION")

ConfiguredRejectTreatmentText ==
    IF UserEntryFound /\ ~IsBlank(RejectTreatmentSegment(MAP[messageUser]))
    THEN RejectTreatmentSegment(MAP[messageUser])
    ELSE ByPrecedence(<<"@", "REJECT_TREATMENT">>, "REJECT_TREATMENT")

C37_WitnessAtEnds ==
    /\ pc = "AcceptForwarding"
    /\ userDestination = <<"a", "1", "@", "x", ",", " ", "a", "1", "@", "x">>
    /\ acceptMultiDestination.validSimple = <<<<"a", "1", "@", "x">>>>
    /\ acceptMultiDestination.duplicateSimple = <<<<"a", "1", "@", "x">>>>

\* The allowed users are configured empty: the text that the precedence
\* rule gives is blank
AllowedUsersAreEmpty == IsBlank(ByPrecedence(<<"@", "USERS">>, "USERS"))

\* The KV store has no entry under the message's user
NoEntryOfMessageUser == UserOfLocalPart(FullLocalPart) \notin DOMAIN MAP

\* No accept forward has been called and no delivery of it attempted
NoAcceptForward ==
    /\ forwardOutcome["AcceptForwarding"] = "none"
    /\ forwardCalls["AcceptForwarding"] = <<>>
    /\ pc # "AcceptForwarding"

(***************************************************************************)
(* C38. When the allowed users are empty and the KV store has no entry     *)
(* of the message's user, no message is admitted and no delivery of the    *)
(* accept forward is attempted, whatever the recipient address is, also    *)
(* one with an empty user part (a local part that is empty or begins with  *)
(* the separator of local parts).                                          *)
(***************************************************************************)
C38_EmptyAllowedUsersAdmitNothing ==
    (AllowedUsersAreEmpty /\ NoEntryOfMessageUser)
    => /\ NoAcceptForward
       /\ pc # "email" => ~messageUserIsAllowed

\* The recipient +t@d with no allowed users and an empty store: the message
\* is admitted and forwarded to a1@x
C38_Witness ==
    /\ messageTo = <<"+", "t", "@", "d">>
    /\ AllowedUsersAreEmpty
    /\ MAP = <<>>
    /\ messageUserIsAllowed
    /\ pc = "AcceptForwarding"
    /\ \E g \in DOMAIN forwardCalls["AcceptForwarding"] :
          \E i \in 1..Len(forwardCalls["AcceptForwarding"][g]) :
             forwardCalls["AcceptForwarding"][g][i].destination = <<"a", "1", "@", "x">>

\* What holds: with no allowed users and no entry, a message with a user
\* part that is not empty is not admitted, and one with an empty user part
\* is
C38_EmptyAllowedUsersAdmitTheEmptyUserOnly ==
    (AllowedUsersAreEmpty /\ NoEntryOfMessageUser /\ pc # "email")
    => /\ messageUserIsAllowed <=> UserOfLocalPart(FullLocalPart) = <<>>
       /\ UserOfLocalPart(FullLocalPart) # <<>> => NoAcceptForward

\* A text is no address and not empty: it has a character and no '@'
IsReason(text) ==
    /\ Len(text) > 0
    /\ \A i \in 1..Len(text) : text[i] # "@"

(***************************************************************************)
(* C39. Whenever setReject is called, its argument is a non-empty string   *)
(* without any '@' (it is never an email address), whatever the reject     *)
(* treatments of the user, the stored global configuration and the         *)
(* environment are.                                                        *)
(***************************************************************************)
C39_RejectReasonIsNeverAnAddress ==
    \A i \in 1..Len(setRejectCalls) : IsReason(setRejectCalls[i])

\* The three reject treatments are addresses, the reject forward did not
\* succeed, and setReject was called
C39_Witness ==
    /\ Len(setRejectCalls) = 1
    /\ pc = "resolved"
    /\ \E i \in 1..Len(userRejectTreatment) : userRejectTreatment[i] = "@"
    /\ \E i \in 1..Len(globalRejectTreatment) : globalRejectTreatment[i] = "@"
    /\ environment["REJECT_TREATMENT"] # Undefined
    /\ \E i \in 1..Len(environment["REJECT_TREATMENT"]) :
          environment["REJECT_TREATMENT"][i] = "@"
    /\ forwardOutcome["RejectForwarding"] = "false"
    /\ IsReason(setRejectCalls[1])

\* The user's entry gives a reason that begins with ':': the local part is
\* put before it
C39_WitnessPrepended ==
    /\ Len(setRejectCalls) = 1
    /\ IsReason(userRejectTreatment)
    /\ userRejectTreatment[1] = ":"
    /\ setRejectCalls[1] = FullLocalPart \o userRejectTreatment

====
